---- MODULE Spec2Model ----
(***************************************************************************)
(* Model of the fraud-detection workflow of Models/langgraph_fraud_detector *)
(* (FraudDetectionGraph), of the QR detector's verdict and of the two       *)
(* entry points of Models/main.py that drive them.                          *)
(*                                                                          *)
(* Probabilities and confidences are fixed-point numbers in units of 1e-5   *)
(* (0.7 is 70000, 0.89999 is 89999).  A text is a sequence of tokens: words *)
(* and the separators " " and "\n".  A Python dict is a record of the keys  *)
(* it holds (keys) and of the values the workflow reads from it.            *)
(***************************************************************************)
EXTENDS Integers, Sequences, FiniteSets, TLC

\* 1.0 in fixed point
One == 100 * 1000

(***************************************************************************)
(* Bounds of the model                                                      *)
(***************************************************************************)
\* longest prose answer of the reasoning service, in words
MaxProseWords == 2

(***************************************************************************)
(* Program constants                                                        *)
(***************************************************************************)
\* llm_analysis: "ml_prediction['confidence'] < 0.7"
LLM_NEEDED_BELOW == 70000
\* generate_final_result: "ml_prediction['confidence'] >= 0.7"
ML_TRUSTED_FROM == 70000
\* generate_final_result: llm_analysis.get('confidence', 0.8)
LLM_DEFAULT_CONFIDENCE == 80000
\* generate_final_result: llm_analysis.get('confidence', 0.5)
HYBRID_DEFAULT_CONFIDENCE == 50000
\* generate_final_result: fallback "confidence = 0.5"
FALLBACK_CONFIDENCE == 50000
\* llm_analysis: "0.8 if is_fraud else 0.6"
KEYWORD_FRAUD_CONFIDENCE == 80000
KEYWORD_CLEAN_CONFIDENCE == 60000
\* generate_final_result: risk tiers
CRITICAL_FROM == 90000
HIGH_FROM == 75000
MEDIUM_FROM == 60000
\* qr_detector.detect_fraud_from_base64: risk tiers
QR_CRITICAL_FROM == 90000
QR_HIGH_FROM == 75000
QR_MEDIUM_FROM == 60000
\* qr_detector.predict_fraud: "fraud_probability > 0.5"
QR_FRAUD_ABOVE == 50000
\* validate_input: conversational result "confidence: 1.0"
GATE_CONFIDENCE == 100000
\* detect_fraud_stream: "chunk_size = 3"
chunk_size == 3

(***************************************************************************)
(* Helpers on numbers and texts                                             *)
(***************************************************************************)
Max(a, b) == IF a >= b THEN a ELSE b

Min(a, b) == IF a <= b THEN a ELSE b

\* str.lower() on the words the model uses
Lower(w) ==
  CASE w = "Fraudulent" -> "fraudulent"
    [] w = "SPAM" -> "spam"
    [] w = "FRAUD_QUERY" -> "fraud_query"
    [] w = "CONVERSATION" -> "conversation"
    [] w = "GARBAGE" -> "garbage"
    [] w = "OFF_TOPIC" -> "off_topic"
    [] w = "GREETING" -> "greeting"
    [] w = "Credit_Card" -> "credit_card"
    [] OTHER -> w

\* the Python test "k in w" for a keyword k and a lower-case word w
IsSubstring(k, w) ==
  \/ k = w
  \/ k = "fraud" /\ w = "fraudulent"

IsSpace(t) == t \in {" ", "\n"}

RECURSIVE LStrip(_)
LStrip(s) == IF s # <<>> /\ IsSpace(Head(s)) THEN LStrip(Tail(s)) ELSE s

RECURSIVE RStrip(_)
RStrip(s) ==
  IF s # <<>> /\ IsSpace(s[Len(s)]) THEN RStrip(SubSeq(s, 1, Len(s) - 1)) ELSE s

\* str.strip()
Strip(s) == RStrip(LStrip(s))

\* str.replace(tok, '') for each token of toks
RemoveAll(s, toks) == SelectSeq(s, LAMBDA t : t \notin toks)

\* the words joined by single spaces
RECURSIVE Sentence(_)
Sentence(ws) ==
  IF Len(ws) <= 1 THEN ws ELSE <<Head(ws), " ">> \o Sentence(Tail(ws))

\* str.split(sep): the pieces between the separators of s (by halves, so
\* that a long text needs no deep recursion)
RECURSIVE SplitOn(_, _)
SplitOn(s, sep) ==
  IF Len(s) = 0 THEN << <<>> >>
  ELSE IF Len(s) = 1 THEN (IF s[1] = sep THEN << <<>>, <<>> >> ELSE <<s>>)
  ELSE LET h == Len(s) \div 2
           l == SplitOn(SubSeq(s, 1, h), sep)
           r == SplitOn(SubSeq(s, h + 1, Len(s)), sep)
       IN SubSeq(l, 1, Len(l) - 1) \o <<l[Len(l)] \o r[1]>> \o Tail(r)

\* sep.join(pieces)
RECURSIVE JoinWith(_, _)
JoinWith(pieces, sep) ==
  IF Len(pieces) = 0 THEN <<>>
  ELSE IF Len(pieces) = 1 THEN pieces[1]
  ELSE LET h == Len(pieces) \div 2 IN
       JoinWith(SubSeq(pieces, 1, h), sep) \o <<sep>>
         \o JoinWith(SubSeq(pieces, h + 1, Len(pieces)), sep)

\* str.splitlines(): the lines of s, no empty last line after a final "\n"
SplitLines(s) ==
  LET ps == SplitOn(s, "\n") IN
  IF ps[Len(ps)] = <<>> THEN SubSeq(ps, 1, Len(ps) - 1) ELSE ps

\* '\n'.join(lines)
JoinLines(lines) == JoinWith(lines, "\n")

\* words made of one to three capital letters, among the words of the model
StrayMarkers == {"K", "AI", "OK", "UPI"}

\* words the leading-label pattern (AI|Assistant|K) matches
LeadingLabels == {"AI", "Assistant", "K"}

\* re.fullmatch(r"\s*(?:[A-Z]{1,3}|AI|K)\s*", ln)
IsMarkerLine(ln) ==
  LET core == Strip(ln) IN Len(core) = 1 /\ core[1] \in StrayMarkers

\* re.sub(r'^\s*(?:AI|Assistant|K)[:\-\s]+', '', s): the label must be followed
\* by a separator, which is removed with the separators after it
StripLeadingLabel(s) ==
  LET t == LStrip(s) IN
  IF Len(t) >= 2 /\ t[1] \in LeadingLabels /\ IsSpace(t[2])
  THEN LStrip(Tail(t))
  ELSE s

\* FraudDetectionGraph._clean_response_text; the fence markers of a fenced
\* block are the tokens <fence-json> and <fence>
clean_response_text(s0) ==
  IF s0 = <<>> THEN s0
  ELSE
    LET s1 == Strip(s0)
        s2 == IF s1 # <<>> /\ Head(s1) = "<fence-json>"
              THEN Strip(RemoveAll(s1, {"<fence-json>", "<fence>"}))
              ELSE IF s1 # <<>> /\ Head(s1) = "<fence>"
              THEN Strip(RemoveAll(s1, {"<fence>"}))
              ELSE s1
        kept == SelectSeq(SplitLines(s2), LAMBDA ln : ~IsMarkerLine(ln))
        s3 == Strip(JoinLines(kept))
    IN StripLeadingLabel(s3)

(***************************************************************************)
(* Classifier adapter: run_ml_model and the _predict_* methods              *)
(***************************************************************************)
\* keys of MLModelLoader.models
ModelKeys == {"credit_card", "spam", "url"}

\* valid_types of classify_fraud_type
valid_types == {"credit_card", "email_spam", "url_fraud", "upi_fraud"}

\* the key of MLModelLoader.models that run_ml_model looks up for a fraud type
ModelKeyOf(ft) ==
  CASE ft = "credit_card" -> "credit_card"
    [] ft = "email_spam" -> "spam"
    [] ft = "url_fraud" -> "url"
    [] OTHER -> "none"

\* probabilities of the fraud class a classifier may return (predict_proba[1]);
\* the legitimate class has the rest
ProbValues ==
  {5000, 30001, 50000, 60000, 69999, 70000, 75000, 89999, 90000, 95000}

\* what inference does for one request: it raises, or returns probabilities
InferenceOutcomes ==
  {[raises |-> TRUE, proba_fraud |-> 0]}
    \cup {[raises |-> FALSE, proba_fraud |-> p] : p \in ProbValues}

\* ml_result as run_ml_model initialises it, with the method it ends with
NoModelOpinion(method) ==
  [model_available |-> FALSE, prediction |-> -1, confidence |-> 0,
   probability_fraud |-> 0, probability_legitimate |-> 0, method |-> method]

\* model.predict: the class of highest probability, the first one on a tie
ModelPredict(proba_fraud) == IF proba_fraud > One - proba_fraud THEN 1 ELSE 0

\* _predict_credit_card, _predict_spam, _predict_url: the opinion they return
predict_credit_card(proba_fraud) ==
  LET prediction == ModelPredict(proba_fraud) IN
  [model_available |-> TRUE,
   prediction |-> prediction,
   confidence |-> IF prediction = 1 THEN proba_fraud ELSE One - proba_fraud,
   probability_fraud |-> proba_fraud,
   probability_legitimate |-> One - proba_fraud,
   method |-> "ML_MODEL"]

\* mutant of run_ml_model: the opinion left by a failed inference counts as
\* available
run_ml_model_error_available(ft, models, outcome) ==
  IF ModelKeyOf(ft) \in models
  THEN IF outcome.raises
       THEN [NoModelOpinion("ERROR_FALLBACK_TO_LLM") EXCEPT !.model_available = TRUE]
       ELSE predict_credit_card(outcome.proba_fraud)
  ELSE NoModelOpinion("LLM_ONLY")

\* run_ml_model: the value it stores in state['ml_prediction']
run_ml_model(ft, models, outcome) ==
  IF ModelKeyOf(ft) \in models
  THEN IF outcome.raises
       THEN NoModelOpinion("ERROR_FALLBACK_TO_LLM")
       ELSE predict_credit_card(outcome.proba_fraud)
  ELSE NoModelOpinion("LLM_ONLY")

(***************************************************************************)
(* Reasoning adapter: llm_analysis                                          *)
(***************************************************************************)
\* a value of state['llm_analysis']: what json.loads returned, or the dict
\* llm_analysis builds.  type is the Python type; keys are the keys of a dict,
\* the string elements of a list or the substrings of a str among the key
\* names the workflow tests with "in"
LlmValue(type, keys, is_fraud, confidence, reasoning) ==
  [type |-> type, keys |-> keys, is_fraud |-> is_fraud,
   confidence |-> confidence, reasoning |-> reasoning]

\* the initial state['llm_analysis'] = {}
EmptyDict == LlmValue("dict", {}, FALSE, 0, <<>>)

\* {'used': False, 'reason': 'ML model confidence was high enough'}
NotUsed == LlmValue("dict", {"used", "reason"}, FALSE, 0, <<>>)

\* words of a prose answer
ProseVocab == {"Fraudulent", "prize"}

\* the fraud-indicating words llm_analysis scans for
FraudKeywords == {"fraud", "fraudulent", "suspicious", "malicious", "spam"}

ProseWordLists ==
  UNION {[1..n -> ProseVocab] : n \in 1..MaxProseWords}

\* confidences the reasoning service may state
LlmConfValues == {0, 60000, 90000}

\* reasoning text of a structured answer
LlmReasoningText == Sentence(<<"Looks", "like", "phishing">>)

\* "Analysis based on fraud detection patterns and expert knowledge."
DefaultLlmReasoning == Sentence(<<"Analysis", "based", "on", "fraud", "patterns">>)

FullKeys ==
  {"is_fraud", "confidence", "risk_level", "reasoning", "red_flags",
   "recommendations", "method"}

\* the JSON values an analysis answer may parse to
AnalysisJsonValues ==
  {LlmValue("dict", {}, FALSE, 0, <<>>)}
    \cup {LlmValue("dict", {"confidence"}, FALSE, c, <<>>) : c \in LlmConfValues}
    \cup {LlmValue("dict", {"is_fraud"}, f, 0, <<>>) : f \in BOOLEAN}
    \cup {LlmValue("dict", FullKeys, f, c, LlmReasoningText) :
            f \in BOOLEAN, c \in LlmConfValues}
    \cup {LlmValue(t, k, FALSE, 0, <<>>) :
            t \in {"list", "str"}, k \in {{}, {"is_fraud"}, {"recommendations"}}}
    \cup {LlmValue("scalar", {}, FALSE, 0, <<>>)}

\* the answers of the reasoning service to the analysis prompt: the call
\* raises, or returns text that is JSON (value) or not (content)
AnalysisResponses ==
  {[kind |-> "raise", content |-> <<>>, value |-> EmptyDict]}
    \cup {[kind |-> "prose", content |-> Sentence(ws), value |-> EmptyDict] :
            ws \in ProseWordLists}
    \cup {[kind |-> "json", content |-> <<>>, value |-> v] : v \in AnalysisJsonValues}

\* mutant of use_llm: the threshold included
use_llm_inclusive(ml) ==
  \/ ~ml.model_available
  \/ ml.method \in {"NONE", "LLM_ONLY", "ERROR_FALLBACK_TO_LLM"}
  \/ ml.confidence <= LLM_NEEDED_BELOW

\* use_llm of llm_analysis
use_llm(ml) ==
  \/ ~ml.model_available
  \/ ml.method \in {"NONE", "LLM_ONLY", "ERROR_FALLBACK_TO_LLM"}
  \/ ml.confidence < LLM_NEEDED_BELOW

\* mutant of KeywordScan: the text is not lower-cased
KeywordScan_case_sensitive(content) ==
  \E i \in 1..Len(content) :
    \E k \in FraudKeywords : IsSubstring(k, content[i])

\* any(word in content_lower for word in [...]) over response.content.lower()
KeywordScan(content) ==
  \E i \in 1..Len(content) :
    \E k \in FraudKeywords : IsSubstring(k, Lower(content[i]))

\* the dict llm_analysis builds when the answer is not valid JSON
KeywordResult(content) ==
  LET is_fraud == KeywordScan(content) IN
  LlmValue("dict", {"is_fraud", "confidence", "reasoning", "method"}, is_fraud,
           IF is_fraud THEN KEYWORD_FRAUD_CONFIDENCE ELSE KEYWORD_CLEAN_CONFIDENCE,
           content)

\* llm_analysis: whether it calls the reasoning service, whether it raises,
\* and the value it stores in state['llm_analysis']
llm_analysis_node(ml, resp) ==
  IF ~use_llm(ml)
  THEN [called |-> FALSE, raised |-> FALSE, value |-> NotUsed]
  ELSE IF resp.kind = "raise"
  THEN [called |-> TRUE, raised |-> TRUE, value |-> EmptyDict]
  ELSE IF resp.kind = "json"
  THEN [called |-> TRUE, raised |-> FALSE, value |-> resp.value]
  ELSE [called |-> TRUE, raised |-> FALSE, value |-> KeywordResult(resp.content)]

(***************************************************************************)
(* Decision fuser: generate_final_result                                    *)
(***************************************************************************)
\* the test "k in llm_analysis"; it raises TypeError on a number, a bool or None
InRaises(llm) == llm.type = "scalar"

HasKey(k, llm) == k \in llm.keys

\* llm_analysis[k] and llm_analysis.get(k, d) raise on a list or a str
IndexRaises(llm) == llm.type # "dict"

\* lines 661-667: the free-text fields of a dict are sanitized in place
SanitizeLlm(llm) ==
  IF llm.type = "dict" /\ HasKey("reasoning", llm)
  THEN [llm EXCEPT !.reasoning = clean_response_text(@)]
  ELSE llm

\* mutant of TrustModel: the threshold excluded
TrustModel_strict(ml) == ml.model_available /\ ml.confidence > ML_TRUSTED_FROM

\* "ml_prediction['model_available'] and ml_prediction['confidence'] >= 0.7"
TrustModel(ml) == ml.model_available /\ ml.confidence >= ML_TRUSTED_FROM

\* mutant of FusionBranch: the hybrid branch tested before the reasoning branch
FusionBranch_hybrid_first(ml, llm) ==
  IF TrustModel(ml) THEN "ML_MODEL"
  ELSE IF ml.model_available THEN "HYBRID"
  ELSE IF HasKey("is_fraud", llm) THEN "LLM_REASONING"
  ELSE "FALLBACK"

\* mutant of FusionBranch: no hybrid branch
FusionBranch_no_hybrid(ml, llm) ==
  IF TrustModel(ml) THEN "ML_MODEL"
  ELSE IF HasKey("is_fraud", llm) THEN "LLM_REASONING"
  ELSE "FALLBACK"

\* mutant of FusionBranch: the reasoning branch taken only for a fraud opinion
FusionBranch_by_label(ml, llm) ==
  IF TrustModel(ml) THEN "ML_MODEL"
  ELSE IF HasKey("is_fraud", llm) /\ llm.is_fraud THEN "LLM_REASONING"
  ELSE IF ml.model_available THEN "HYBRID"
  ELSE "FALLBACK"

\* the branch of the if/elif chain that is taken, named by its method tag
FusionBranch(ml, llm) ==
  IF TrustModel(ml) THEN "ML_MODEL"
  ELSE IF HasKey("is_fraud", llm) THEN "LLM_REASONING"
  ELSE IF ml.model_available THEN "HYBRID"
  ELSE "FALLBACK"

\* hybrid branch: "is_fraud = ml_fraud or llm_fraud"
HybridIsFraud(ml, llm) ==
  LET ml_fraud == ml.prediction = 1
      llm_fraud == IF HasKey("is_fraud", llm) THEN llm.is_fraud ELSE ml_fraud
  IN ml_fraud \/ llm_fraud

\* hybrid branch: the value of llm_conf
HybridLlmConf(llm) ==
  IF HasKey("confidence", llm) THEN llm.confidence ELSE HYBRID_DEFAULT_CONFIDENCE

\* mutant of HybridConfidence: the smaller confidence whatever the verdict
HybridConfidence_min(ml, llm) == Min(ml.confidence, HybridLlmConf(llm))

\* hybrid branch: "max(ml_conf, llm_conf) if is_fraud else min(ml_conf, llm_conf)"
HybridConfidence(ml, llm) ==
  IF HybridIsFraud(ml, llm)
  THEN Max(ml.confidence, HybridLlmConf(llm))
  ELSE Min(ml.confidence, HybridLlmConf(llm))

FusionIsFraud(ml, llm) ==
  CASE FusionBranch(ml, llm) = "ML_MODEL" -> ml.prediction = 1
    [] FusionBranch(ml, llm) = "LLM_REASONING" -> llm.is_fraud
    [] FusionBranch(ml, llm) = "HYBRID" -> HybridIsFraud(ml, llm)
    [] OTHER -> FALSE

FusionConfidence(ml, llm) ==
  CASE FusionBranch(ml, llm) = "ML_MODEL" -> ml.confidence
    [] FusionBranch(ml, llm) = "LLM_REASONING" ->
         IF HasKey("confidence", llm) THEN llm.confidence ELSE LLM_DEFAULT_CONFIDENCE
    [] FusionBranch(ml, llm) = "HYBRID" -> HybridConfidence(ml, llm)
    [] OTHER -> FALLBACK_CONFIDENCE

\* the reasoning texts of the four branches (the percentages they embed are
\* left out)
MlFraudReasoning == Sentence(<<"ML", "model", "detected", "suspicious", "patterns">>)

MlLegitReasoning == Sentence(<<"appears", "legitimate">>)

HybridFraudReasoning == Sentence(<<"ML", "model", "and", "expert", "flagged", "this">>)

HybridLegitReasoning == Sentence(<<"comprehensive", "analysis", "appears", "legitimate">>)

\* "Unable to perform full analysis with available data. Recommend manual
\* review if this is a critical transaction."
FallbackReasoning ==
  Sentence(<<"Unable", "to", "perform", "full", "analysis.", "Recommend",
             "manual", "review">>)

FusionReasoning(ml, llm) ==
  LET branch == FusionBranch(ml, llm)
      is_fraud == FusionIsFraud(ml, llm)
      reasoning ==
        CASE branch = "ML_MODEL" ->
               IF is_fraud THEN MlFraudReasoning ELSE MlLegitReasoning
          [] branch = "LLM_REASONING" ->
               IF HasKey("reasoning", llm) THEN llm.reasoning ELSE DefaultLlmReasoning
          [] branch = "HYBRID" ->
               IF is_fraud THEN HybridFraudReasoning ELSE HybridLegitReasoning
          [] OTHER -> FallbackReasoning
  IN clean_response_text(reasoning)

\* mutant of risk_level: the CRITICAL boundary excluded
risk_level_exclusive(is_fraud, confidence) ==
  IF is_fraud
  THEN IF confidence > CRITICAL_FROM THEN "CRITICAL"
       ELSE IF confidence >= HIGH_FROM THEN "HIGH"
       ELSE IF confidence >= MEDIUM_FROM THEN "MEDIUM"
       ELSE "LOW"
  ELSE "LOW"

\* lines 716-731: the risk tier
risk_level(is_fraud, confidence) ==
  IF is_fraud
  THEN IF confidence >= CRITICAL_FROM THEN "CRITICAL"
       ELSE IF confidence >= HIGH_FROM THEN "HIGH"
       ELSE IF confidence >= MEDIUM_FROM THEN "MEDIUM"
       ELSE "LOW"
  ELSE "LOW"

\* lines 716-731: the recommendation of the tier
TierRecommendation(is_fraud, confidence) ==
  IF is_fraud
  THEN CASE risk_level(is_fraud, confidence) = "CRITICAL" ->
              <<"##", " ", "IMMEDIATE", " ", "ACTION", "\n", "\n", "Block", " ", "immediately">>
         [] risk_level(is_fraud, confidence) = "HIGH" ->
              <<"##", " ", "BLOCK", " ", "AND", " ", "REVIEW", "\n", "\n", "blocked">>
         [] risk_level(is_fraud, confidence) = "MEDIUM" ->
              <<"##", " ", "FLAG", " ", "FOR", " ", "REVIEW", "\n", "\n", "reviewed">>
         [] OTHER ->
              <<"##", " ", "INVESTIGATE", "\n", "\n", "verify">>
  ELSE <<"##", " ", "LIKELY", " ", "SAFE", "\n", "\n", "Appears", " ", "legitimate">>

\* the recommendations text of a structured answer
LlmRecommendations == Sentence(<<"Do", "not", "click">>)

\* the red flags of a structured answer
LlmRedFlags == <<Sentence(<<"urgent", "tone">>)>>

FusionRecommendation(ml, llm) ==
  LET rec == clean_response_text(
               TierRecommendation(FusionIsFraud(ml, llm), FusionConfidence(ml, llm)))
  IN IF HasKey("recommendations", llm)
     THEN rec \o <<"\n", "\n", "###", " ", "Additional", " ", "Insights", "\n", "\n">>
              \o LlmRecommendations
     ELSE rec

FusionRedFlags(llm) == IF HasKey("red_flags", llm) THEN LlmRedFlags ELSE <<>>

\* fraud_type_labels.get(fraud_type, 'Fraud Detection')
FraudTypeLabel(ft) ==
  CASE ft = "credit_card" -> <<"Credit", " ", "Card", " ", "Fraud", " ", "Detection">>
    [] ft = "email_spam" -> <<"Email/SMS", " ", "Spam", " ", "Detection">>
    [] ft = "url_fraud" -> <<"URL/Phishing", " ", "Detection">>
    [] ft = "upi_fraud" -> <<"UPI", " ", "Transaction", " ", "Fraud", " ", "Detection">>
    [] OTHER -> <<"Fraud", " ", "Detection">>

RECURSIVE FlagLines(_)
FlagLines(flags) ==
  IF flags = <<>> THEN <<>>
  ELSE <<"-", " ">> \o Head(flags) \o <<"\n">> \o FlagLines(Tail(flags))

\* fraud_type.upper().replace('_', ' ')
TypeWords(ft) ==
  CASE ft = "credit_card" -> <<"CREDIT", " ", "CARD">>
    [] ft = "email_spam" -> <<"EMAIL", " ", "SPAM">>
    [] ft = "url_fraud" -> <<"URL", " ", "FRAUD">>
    [] ft = "upi_fraud" -> <<"UPI", " ", "FRAUD">>
    [] OTHER -> <<ft>>

\* method.replace('_', ' ')
MethodWords(method) ==
  CASE method = "ML_MODEL" -> <<"ML", " ", "MODEL">>
    [] method = "LLM_REASONING" -> <<"LLM", " ", "REASONING">>
    [] OTHER -> <<method>>

\* lines 772-801: the markdown message (the percentage is the confidence
\* itself)
FormattedMessage(ft, is_fraud, confidence, risk, method, reasoning, recommendation, flags) ==
  LET status == IF is_fraud THEN <<"**FRAUD", " ", "DETECTED**">>
                ELSE <<"**APPEARS", " ", "SAFE**">>
      body ==
        <<"#", " ">> \o FraudTypeLabel(ft) \o <<" ", "Result", "\n", "\n">>
        \o <<"##", " ", "Status:", " ">> \o status \o <<"\n", "\n">>
        \o <<"**Type:**", " ">> \o TypeWords(ft) \o <<" ", " ", "\n">>
        \o <<"**Confidence:**", " ", ToString(confidence), " ", " ", "\n">>
        \o <<"**Risk", " ", "Level:**", " ", risk, " ", " ", "\n">>
        \o <<"**Detection", " ", "Method:**", " ">> \o MethodWords(method)
        \o <<"\n", "\n", "---", "\n", "\n">>
        \o <<"###", " ", "Analysis", "\n", "\n">> \o reasoning
        \o <<"\n", "\n", "---", "\n", "\n">> \o recommendation \o <<"\n">>
      flagged ==
        IF flags # <<>>
        THEN body \o <<"\n", "\n", "###", " ", "Red", " ", "Flags", "\n", "\n">>
                  \o FlagLines(flags)
        ELSE body
  IN clean_response_text(flagged)

\* a value of state['final_result'] ({} is the value with present = FALSE)
NoResult ==
  [present |-> FALSE, fraud_type |-> "", is_fraud |-> FALSE, confidence |-> 0,
   risk_level |-> "", detection_method |-> "", reasoning |-> <<>>,
   recommendation |-> <<>>, is_conversational |-> FALSE,
   has_formatted_message |-> FALSE, formatted_message |-> <<>>]

\* whether generate_final_result raises: a test or an index on a value that
\* is not a dict (lines 682-694 and 739-747)
FusionRaises(ml, llm) ==
  \/ InRaises(llm)
  \/ /\ IndexRaises(llm)
     /\ \/ ~TrustModel(ml) /\ (HasKey("is_fraud", llm) \/ ml.model_available)
        \/ HasKey("red_flags", llm)
        \/ HasKey("recommendations", llm)

\* generate_final_result: whether it raises, the sanitized state['llm_analysis']
\* and the state['final_result'] it stores
generate_final_result(ft, ml, llm0) ==
  LET llm == SanitizeLlm(llm0)
      is_fraud == FusionIsFraud(ml, llm)
      confidence == FusionConfidence(ml, llm)
      method == FusionBranch(ml, llm)
      reasoning == FusionReasoning(ml, llm)
      recommendation == FusionRecommendation(ml, llm)
      risk == risk_level(is_fraud, confidence)
  IN IF FusionRaises(ml, llm)
     THEN [raised |-> TRUE, llm |-> llm, result |-> NoResult]
     ELSE [raised |-> FALSE, llm |-> llm,
           result |->
             [present |-> TRUE, fraud_type |-> ft, is_fraud |-> is_fraud,
              confidence |-> confidence, risk_level |-> risk,
              detection_method |-> method, reasoning |-> reasoning,
              recommendation |-> recommendation, is_conversational |-> FALSE,
              has_formatted_message |-> TRUE,
              formatted_message |->
                FormattedMessage(ft, is_fraud, confidence, risk, method,
                                 reasoning, recommendation, FusionRedFlags(llm))]]

(***************************************************************************)
(* Input gate and domain classifier: validate_input, classify_fraud_type,   *)
(* parse_input_data                                                         *)
(***************************************************************************)
\* the user's texts
UserInputs ==
  {<<"spam", " ", "link">>, <<"aaaaaaaaaa">>}

\* the answers of the reasoning service to the gate prompt: the call raises,
\* the text is no JSON (prose), the JSON is no object (nondict), or it is an
\* object with these values; category "null" is a category that is no string
GateCategories == {"FRAUD_QUERY", "CONVERSATION", "GARBAGE", "OFF_TOPIC", "GREETING", "null"}

GateResponses ==
  {[kind |-> k, category |-> "CONVERSATION", is_fraud_request |-> FALSE] :
     k \in {"raise", "prose", "nondict"}}
    \cup {[kind |-> "dict", category |-> c, is_fraud_request |-> FALSE] :
            c \in GateCategories}
    \cup {[kind |-> "dict", category |-> c, is_fraud_request |-> TRUE] :
            c \in {"FRAUD_QUERY", "CONVERSATION", "null"}}

\* conversational_response and reasoning of a gate answer
GateReply == Sentence(<<"Hello!", "How", "can", "I", "help?">>)

GateReasoning == Sentence(<<"greeting">>)

\* the canned recommendation of the except branch of validate_input
GateFallbackReply == Sentence(<<"I'm", "here", "to", "help", "with", "fraud", "detection!">>)

GateFallbackReasoning == Sentence(<<"Processing", "your", "request">>)

\* the conversational final_result validate_input writes
ConversationalResult(ft, reasoning, recommendation, is_conversational) ==
  [present |-> TRUE, fraud_type |-> ft, is_fraud |-> FALSE,
   confidence |-> GATE_CONFIDENCE, risk_level |-> "N/A",
   detection_method |-> "CONVERSATIONAL_AI", reasoning |-> reasoning,
   recommendation |-> recommendation, is_conversational |-> is_conversational,
   has_formatted_message |-> FALSE, formatted_message |-> <<>>]

\* validate_input: whether the call raises, and the fraud_type and
\* final_result the node leaves in the state (wrote = FALSE: both untouched)
validate_input(resp) ==
  IF resp.kind = "raise"
  THEN [raised |-> TRUE, wrote |-> FALSE, fraud_type |-> "", final_result |-> NoResult]
  ELSE IF \/ resp.kind \in {"prose", "nondict"}
          \/ ~resp.is_fraud_request /\ resp.category = "null"
  THEN [raised |-> FALSE, wrote |-> TRUE, fraud_type |-> "conversation",
        final_result |->
          ConversationalResult("conversation", GateFallbackReasoning,
                               GateFallbackReply, FALSE)]
  ELSE IF ~resp.is_fraud_request
  THEN [raised |-> FALSE, wrote |-> TRUE, fraud_type |-> Lower(resp.category),
        final_result |->
          ConversationalResult(Lower(resp.category),
                               clean_response_text(GateReasoning),
                               clean_response_text(GateReply), TRUE)]
  ELSE [raised |-> FALSE, wrote |-> FALSE, fraud_type |-> "", final_result |-> NoResult]

\* mutant of should_continue_to_fraud_detection: garbage is not in the list
should_continue_without_garbage(ft) ==
  IF ft \in {"greeting", "capability", "capability_query", "off_topic",
             "invalid_query", "conversation"}
  THEN "end"
  ELSE "continue"

\* should_continue_to_fraud_detection
should_continue_to_fraud_detection(ft) ==
  IF ft \in {"greeting", "capability", "capability_query", "off_topic",
             "invalid_query", "conversation", "garbage"}
  THEN "end"
  ELSE "continue"

\* the answers of the reasoning service to the classification prompt
ClassifyAnswers == valid_types \cup {"Credit_Card", "payment"}

\* any(word in user_input for word in words), user_input lower-cased
AnyWordIn(words, text) ==
  \E i \in 1..Len(text) : \E w \in words : IsSubstring(w, Lower(text[i]))

\* mutant of classify_fraud_type: the link keywords tested before the message
\* keywords
classify_links_first(user_input, answer) ==
  LET ft == Lower(answer) IN
  IF ft \in valid_types THEN ft
  ELSE IF AnyWordIn({"transaction", "amount", "v1", "v2", "credit card"}, user_input)
  THEN "credit_card"
  ELSE IF AnyWordIn({"url", "link", "website", "http", "https"}, user_input)
  THEN "url_fraud"
  ELSE IF AnyWordIn({"message", "sms", "email", "text", "spam"}, user_input)
  THEN "email_spam"
  ELSE "upi_fraud"

\* classify_fraud_type: the fraud type for an answer of the reasoning service
classify_fraud_type(user_input, answer) ==
  LET ft == Lower(answer) IN
  IF ft \in valid_types THEN ft
  ELSE IF AnyWordIn({"transaction", "amount", "v1", "v2", "credit card"}, user_input)
  THEN "credit_card"
  ELSE IF AnyWordIn({"message", "sms", "email", "text", "spam"}, user_input)
  THEN "email_spam"
  ELSE IF AnyWordIn({"url", "link", "website", "http", "https"}, user_input)
  THEN "url_fraud"
  ELSE "upi_fraud"

\* parse_input_data: the parsed_data for an answer of the reasoning service:
\* a JSON object (dict), another JSON value (nondict), or no JSON (prose), for
\* which the node stores {"raw_input": user_input}
ParseAnswers == {"dict", "nondict", "prose"}

parse_input_data(answer) == IF answer = "prose" THEN "raw_input" ELSE answer

(***************************************************************************)
(* InputValidator.validate of fraud_advisor.py                              *)
(***************************************************************************)
\* len(query) > 500
MAX_QUERY_LENGTH == 500

\* len(query.strip()) < 2
MIN_QUERY_LENGTH == 2

\* the characters of the tokens of the texts
Chars(w) ==
  CASE w = " " -> <<" ">>
    [] w = "check" -> <<"c", "h", "e", "c", "k">>
    [] w = "transaction" -> <<"t", "r", "a", "n", "s", "a", "c", "t", "i", "o", "n">>
    [] w = "spam" -> <<"s", "p", "a", "m">>
    [] w = "link" -> <<"l", "i", "n", "k">>
    [] w = "aaaaaaaaaa" -> <<"a", "a", "a", "a", "a", "a", "a", "a", "a", "a">>
    [] w = "hi" -> <<"h", "i">>
    [] w = "a" -> <<"a">>
    [] w = "Aa1" -> <<"A", "a", "1">>
    [] w = "12345678" -> <<"1", "2", "3", "4", "5", "6", "7", "8">>
    [] w = "ab12" -> <<"a", "b", "1", "2">>
    [] w = "a?!" -> <<"a", "?", "!">>
    [] w = "ab*501" -> [k \in 1..(MAX_QUERY_LENGTH + 1) |-> IF k % 2 = 1 THEN "a" ELSE "b"]
    [] OTHER -> <<w>>

RECURSIVE QueryChars(_)
\* the characters of a text
QueryChars(s) == IF s = <<>> THEN <<>> ELSE Chars(Head(s)) \o QueryChars(Tail(s))

\* str.isalpha, str.isdigit and str.lower on one character
IsAlpha(c) ==
  c \in {"a", "b", "c", "e", "h", "i", "k", "l", "m", "n", "o", "p", "r", "s", "t", "A"}

IsDigit(c) == c \in {"1", "2", "3", "4", "5", "6", "7", "8"}

LowerChar(c) == IF c = "A" THEN "a" ELSE c

\* number of the characters of q that satisfy Test
CountChars(q, Test(_)) == Cardinality({k \in 1..Len(q) : Test(q[k])})

\* mutant of InputValidator_validate: the digit check before the alphabetic one
InputValidator_validate_digits_first(q) ==
  LET alpha_count == CountChars(q, IsAlpha)
      NotSpace(c) == c # " "
      total_chars == CountChars(q, NotSpace)
      digit_count == CountChars(q, IsDigit)
      Repeated(c) ==
        LET IsC(d) == LowerChar(d) = c IN
        IsAlpha(c) /\ 10 * CountChars(q, IsC) > 4 * Len(q)
  IN IF Len(Strip(q)) < MIN_QUERY_LENGTH THEN "too_short"
     ELSE IF Len(q) > MAX_QUERY_LENGTH THEN "too_long"
     ELSE IF total_chars > 0 /\ 10 * digit_count > 7 * total_chars
     THEN "mostly_numbers"
     ELSE IF total_chars > 0 /\ 2 * alpha_count < total_chars THEN "gibberish"
     ELSE IF Len(q) > 5 /\ \E k \in 1..Len(q) : Repeated(LowerChar(q[k]))
     THEN "repeated_chars"
     ELSE "valid"

\* InputValidator.validate(query): the reason of the first check that fails,
\* "valid" when none does; q is the sequence of the characters of query
InputValidator_validate(q) ==
  LET alpha_count == CountChars(q, IsAlpha)
      NotSpace(c) == c # " "
      total_chars == CountChars(q, NotSpace)
      digit_count == CountChars(q, IsDigit)
      Repeated(c) ==
        LET IsC(d) == LowerChar(d) = c IN
        IsAlpha(c) /\ 10 * CountChars(q, IsC) > 4 * Len(q)
  IN IF Len(Strip(q)) < MIN_QUERY_LENGTH THEN "too_short"
     ELSE IF Len(q) > MAX_QUERY_LENGTH THEN "too_long"
     ELSE IF total_chars > 0 /\ 2 * alpha_count < total_chars THEN "gibberish"
     ELSE IF Len(q) > 5 /\ \E k \in 1..Len(q) : Repeated(LowerChar(q[k]))
     THEN "repeated_chars"
     ELSE IF total_chars > 0 /\ 10 * digit_count > 7 * total_chars
     THEN "mostly_numbers"
     ELSE "valid"

(***************************************************************************)
(* Advisor: ResponseTemplates and the nodes of FraudAdvisorGraph            *)
(***************************************************************************)
\* the values of the enumerations QueryType and Topic
QueryTypes == {"greeting", "simple", "detailed", "invalid"}

Topics ==
  {"credit_card", "email_spam", "url_phishing", "upi_payment", "call_fraud", "general"}

\* ResponseTemplates.get_invalid_input_message
get_invalid_input_message(reason) ==
  CASE reason = "too_short" ->
         "Please provide a more detailed question so I can help you better."
    [] reason = "too_long" ->
         "Your question is quite long. Could you please make it more concise?"
    [] reason = "mostly_numbers" ->
         "I couldn't understand your question. Could you please provide a clear question about fraud prevention?"
    [] OTHER -> "I couldn't understand your question. Could you please rephrase it?"

\* the queries sent to the advisor
AdvisorQueries ==
  {<<"spam", " ", "link">>, <<"hi">>, <<"a">>, <<"aaaaaaaaaa">>, <<"12345678">>,
   <<"ab*501">>}

\* get_advice: initial_state
InitialAdvisorState ==
  [is_valid |-> FALSE, query_type |-> "", topic |-> "", response_text |-> <<>>,
   formatted_response |-> <<>>]

\* FraudAdvisorGraph.validate_input; texts are sequences of lines
advisor_validate_input(state, query) ==
  LET reason == InputValidator_validate(QueryChars(query)) IN
  IF reason = "valid"
  THEN [state EXCEPT !.is_valid = TRUE]
  ELSE [state EXCEPT !.is_valid = FALSE,
                     !.query_type = "invalid",
                     !.formatted_response = <<get_invalid_input_message(reason)>>]

\* FraudAdvisorGraph.should_continue
should_continue(state) == IF ~state.is_valid THEN "end" ELSE "continue"

\* the answers of the reasoning service to the categorization prompt: the
\* call raises, the content is no JSON (prose), JSON that is no object
\* (nondict), or an object whose keys are missing, null, inside or outside
\* the enumerations
CategorizeResponses ==
  {[kind |-> k, query_type |-> "missing", topic |-> "missing"] :
     k \in {"raise", "prose", "nondict"}}
    \cup {[kind |-> "dict", query_type |-> qt, topic |-> tp] :
            qt \in {"missing", "null", "greeting", "simple", "detailed", "expert"},
            tp \in {"missing", "null", "credit_card", "general", "crypto"}}

\* FraudAdvisorGraph.categorize_query for a valid query
categorize_query(state, resp) ==
  IF resp.kind = "raise"
  THEN [raised |-> TRUE, state |-> state]
  ELSE IF resp.kind = "dict"
  THEN [raised |-> FALSE,
        state |-> [state EXCEPT
                     !.query_type = IF resp.query_type = "missing" THEN "simple"
                                    ELSE resp.query_type,
                     !.topic = IF resp.topic = "missing" THEN "general"
                               ELSE resp.topic]]
  ELSE [raised |-> FALSE,
        state |-> [state EXCEPT !.query_type = "simple", !.topic = "general"]]

\* generate_response: QueryType(state['query_type']) and Topic(state['topic'])
\* raise ValueError on a value that is not of the enumeration
EnumRaises(state) == state.query_type \notin QueryTypes \/ state.topic \notin Topics

\* lines that start with "-", "*", a bullet sign or "**"
IsBulletLine(line) ==
  line \in {"**Steps:**", "- Check the sender", "- Use two-factor authentication"}

\* the answers of the reasoning service to the generation prompt, as lines
GenerationTexts ==
  {<<"Stay alert.">>,
   <<"", "Be careful.", "**Steps:**", "- Check the sender", "",
     "- Use two-factor authentication", "Stay safe.", "">>}

RECURSIVE StripLines(_)
\* str.strip on a text: the empty lines at both ends go
StripLines(lines) ==
  IF lines = <<>> THEN <<>>
  ELSE IF Head(lines) = "" THEN StripLines(Tail(lines))
  ELSE IF lines[Len(lines)] = "" THEN StripLines(SubSeq(lines, 1, Len(lines) - 1))
  ELSE lines

RECURSIVE FormatLines(_, _, _)
\* the loop of format_output over lines[k..], formatted_lines so far
FormatLines(lines, k, formatted_lines) ==
  IF k > Len(lines) THEN formatted_lines
  ELSE IF lines[k] = "" THEN FormatLines(lines, k + 1, formatted_lines)
  ELSE
    LET stripped == lines[k]
        is_bullet == IsBulletLine(stripped)
        prev_line == IF formatted_lines = <<>> THEN ""
                     ELSE formatted_lines[Len(formatted_lines)]
        prev_was_bullet == IsBulletLine(prev_line)
        next_line == IF k + 1 <= Len(lines) THEN lines[k + 1] ELSE ""
        next_is_bullet == IsBulletLine(next_line)
        before == IF is_bullet /\ ~prev_was_bullet /\ formatted_lines # <<>>
                  THEN <<"">> ELSE <<>>
        after == IF is_bullet /\ ~next_is_bullet /\ next_line # ""
                 THEN <<"">> ELSE <<>>
    IN FormatLines(lines, k + 1, formatted_lines \o before \o <<stripped>> \o after)

RECURSIVE CollapseBlankLines(_)
\* replace('\n\n\n', '\n\n') on the joined lines: of two empty lines in a row
\* inside the text one goes, from left to right
CollapseBlankLines(lines) ==
  IF lines = <<>> THEN <<>>
  ELSE IF Len(lines) >= 4 /\ lines[2] = "" /\ lines[3] = ""
  THEN <<lines[1], "">> \o CollapseBlankLines(SubSeq(lines, 4, Len(lines)))
  ELSE <<Head(lines)>> \o CollapseBlankLines(Tail(lines))

\* FraudAdvisorGraph.format_output
format_output(state) ==
  IF ~state.is_valid THEN state
  ELSE [state EXCEPT !.formatted_response =
          CollapseBlankLines(FormatLines(state.response_text, 1, <<>>))]

\* main.py validate_query: is_valid
is_valid_fraud_query(ft) == ft \notin {"greeting", "capability_query", "invalid_query"}

(***************************************************************************)
(* QR detector: QRFraudDetector.predict_fraud and detect_fraud_from_base64  *)
(***************************************************************************)
\* what the QR detector does with one image: the constructor raises (no
\* model file), decoding or prediction fails, or the classifier returns the
\* probability of the fraud class
QrOutcomes ==
  {[kind |-> k, proba_fraud |-> 0] : k \in {"init_raises", "decode_error"}}
    \cup {[kind |-> "predicted", proba_fraud |-> p] : p \in ProbValues}

\* detect_fraud_from_base64, lines 160-171: the risk tier
qr_risk_level(is_fraud, confidence) ==
  IF is_fraud
  THEN IF confidence >= QR_CRITICAL_FROM THEN "CRITICAL"
       ELSE IF confidence >= QR_HIGH_FROM THEN "HIGH"
       ELSE IF confidence >= QR_MEDIUM_FROM THEN "MEDIUM"
       ELSE "LOW"
  ELSE "LOW"

QrErrorReasoning == Sentence(<<"Error", "processing", "QR", "code">>)

QrErrorRecommendation == Sentence(<<"Unable", "to", "analyze", "QR", "code.">>)

\* the error result of detect_fraud_from_base64 and of the handlers of main.py
QrErrorResult ==
  [present |-> TRUE, fraud_type |-> "qr_fraud", is_fraud |-> FALSE,
   confidence |-> 0, risk_level |-> "N/A", detection_method |-> "ERROR",
   reasoning |-> QrErrorReasoning, recommendation |-> QrErrorRecommendation,
   is_conversational |-> FALSE, has_formatted_message |-> FALSE,
   formatted_message |-> <<>>]

\* detect_fraud_from_base64 for an image whose decoding succeeded or failed
detect_fraud_from_base64(outcome) ==
  IF outcome.kind = "predicted"
  THEN LET is_fraud == outcome.proba_fraud > QR_FRAUD_ABOVE
           confidence == IF is_fraud THEN outcome.proba_fraud
                         ELSE One - outcome.proba_fraud
       IN [present |-> TRUE, fraud_type |-> "qr_fraud", is_fraud |-> is_fraud,
           confidence |-> confidence,
           risk_level |-> qr_risk_level(is_fraud, confidence),
           detection_method |-> "ML_MODEL",
           reasoning |-> IF is_fraud
                         THEN Sentence(<<"QR", "code", "shows", "suspicious", "patterns">>)
                         ELSE Sentence(<<"QR", "code", "appears", "legitimate">>),
           recommendation |-> IF is_fraud
                              THEN Sentence(<<"DO", "NOT", "SCAN">>)
                              ELSE Sentence(<<"QR", "code", "appears", "safe">>),
           is_conversational |-> FALSE, has_formatted_message |-> FALSE,
           formatted_message |-> <<>>]
  ELSE QrErrorResult

\* the explanation the reasoning service writes for a QR verdict
QrExplanation == Sentence(<<"This", "QR", "code", "is", "risky">>)

(***************************************************************************)
(* Streaming presenter helpers: detect_fraud_stream                         *)
(***************************************************************************)
\* mutant of SplitSpaces: the text is split at its line breaks
SplitSpaces_at_lines(s) == SplitOn(s, "\n")

\* str.split(' '): the pieces between the single spaces of s
SplitSpaces(s) == SplitOn(s, " ")

\* ' '.join(pieces)
JoinSpaces(pieces) == JoinWith(pieces, " ")

\* mutant of ChunkAt: no space is added after a chunk
ChunkAt_no_space(ws, k) ==
  JoinWith(SubSeq(ws, k + 1, IF k + 3 < Len(ws) THEN k + 3 ELSE Len(ws)), " ")

\* the chunk of the words from index i (0-based): ' '.join(words[i:i+chunk_size]),
\* with a space after it when more words follow
ChunkAt(ws, k) ==
  LET piece == JoinSpaces(SubSeq(ws, k + 1, Min(k + chunk_size, Len(ws)))) IN
  IF k + chunk_size < Len(ws) THEN piece \o <<" ">> ELSE piece

\* result.get('formatted_message', result.get('reasoning', '')), cleaned
StreamedText(result) ==
  clean_response_text(
    IF result.has_formatted_message THEN result.formatted_message
    ELSE result.reasoning)

\* the events a stream yields
ContentEvent(text) ==
  [type |-> "content", content |-> text, is_complete |-> FALSE, result |-> NoResult]

CompleteEvent(result) ==
  [type |-> "complete", content |-> <<>>, is_complete |-> TRUE, result |-> result]

ErrorEvent ==
  [type |-> "error", content |-> <<>>, is_complete |-> FALSE, result |-> NoResult]

\* the fallback result of /api/detect when detector.detect_fraud raises
QueryValidatorResult ==
  [present |-> TRUE, fraud_type |-> "invalid_query", is_fraud |-> FALSE,
   confidence |-> 0, risk_level |-> "N/A", detection_method |-> "QUERY_VALIDATOR",
   reasoning |-> Sentence(<<"Unable", "to", "process", "query.">>),
   recommendation |-> Sentence(<<"I", "didn't", "understand", "that.">>),
   is_conversational |-> FALSE, has_formatted_message |-> FALSE,
   formatted_message |-> <<>>]

(***************************************************************************)
(* The request: state of one request to /api/detect or /api/detect/stream   *)
(***************************************************************************)
VARIABLES
  pc,             \* position of the request
  entry,          \* "once": /api/detect, "stream": /api/detect/stream
  has_image,      \* request.image is set
  qr_available,   \* QR_DETECTOR_AVAILABLE
  models,         \* keys of model_loader.models (loaded at start-up)
  user_input,     \* state['user_input']
  fraud_type,     \* state['fraud_type']
  parsed_data,    \* state['parsed_data']
  ml_prediction,  \* state['ml_prediction']
  llm_analysis,   \* state['llm_analysis']
  final_result,   \* state['final_result']
  calls,          \* calls made to the reasoning service and the classifier, per stage
  raised_in,      \* the stage whose exception left the graph, or "none"
  gate_resp,      \* the reasoning service's answer to the gate prompt
  analysis_resp,  \* the answer of the reasoning service to the analysis prompt
  response,       \* the result /api/detect returns
  events,         \* the events the stream has yielded
  ran,            \* the graph nodes entered so far, in order
  words,          \* words of detect_fraud_stream
  i,              \* loop index of detect_fraud_stream
  advisor_state   \* AdvisorState of the advisor graph

vars ==
  <<pc, entry, has_image, qr_available, models, user_input, fraud_type,
    parsed_data, ml_prediction, llm_analysis, final_result, calls, raised_in,
    gate_resp, analysis_resp, response, events, ran, words, i, advisor_state>>

\* the inputs and results of the graph
graph_state == <<fraud_type, parsed_data, ml_prediction, llm_analysis, final_result>>

request == <<entry, has_image, qr_available, models, user_input>>

\* the entry points: /api/detect, /api/detect/stream, /api/validate-query and
\* the advisor (get_advice, and get_advice_stream up to its first chunk)
Endpoints == {"once", "stream", "validate_query", "advise"}

\* the model registries a process may have loaded
Registries == {{}, ModelKeys}

\* (request.image set, QR_DETECTOR_AVAILABLE)
RequestKinds == {<<FALSE, TRUE>>, <<TRUE, TRUE>>, <<TRUE, FALSE>>}

NoCalls ==
  [validate |-> 0, classify |-> 0, parse |-> 0, classifier |-> 0, analyze |-> 0,
   explain |-> 0, categorize |-> 0, generate |-> 0]

\* before the gate prompt is answered
NoGateAnswer == [kind |-> "none", category |-> "CONVERSATION", is_fraud_request |-> FALSE]

NoAnalysis == [kind |-> "none", content |-> <<>>, value |-> EmptyDict]

\* the initial ml_prediction = {}
NoPrediction == NoModelOpinion("")

Init ==
  /\ pc = "request"
  /\ entry \in Endpoints
  /\ \E k \in RequestKinds : has_image = k[1] /\ qr_available = k[2]
  /\ models \in Registries
  /\ user_input \in IF entry = "advise" THEN AdvisorQueries ELSE UserInputs
  \* an AdvisorRequest carries no image, and the advisor loads no models
  /\ entry = "advise" => ~has_image /\ qr_available /\ models = {}
  /\ fraud_type = ""
  /\ parsed_data = "empty"
  /\ ml_prediction = NoPrediction
  /\ llm_analysis = EmptyDict
  /\ final_result = NoResult
  /\ calls = NoCalls
  /\ raised_in = "none"
  /\ gate_resp = NoGateAnswer
  /\ analysis_resp = NoAnalysis
  /\ response = NoResult
  /\ events = <<>>
  /\ ran = <<>>
  /\ words = <<>>
  /\ i = 0
  /\ advisor_state = InitialAdvisorState

\* main.py detect_fraud / generate_stream: "if request.image and QR_DETECTOR_AVAILABLE"
api_request ==
  /\ pc = "request"
  /\ pc' = IF entry = "validate_query" THEN "validate_query"
           ELSE IF entry = "advise" THEN "advisor_validate"
           ELSE IF has_image /\ qr_available THEN "qr_detect"
           ELSE "validate"
  /\ UNCHANGED <<ran, request, graph_state, calls, raised_in, analysis_resp, gate_resp, response,
                 events, words, i>>
  /\ UNCHANGED advisor_state

\* node "validate" and the conditional edge after it
validate ==
  /\ pc = "validate"
  /\ ran' = Append(ran, "validate")
  /\ \E resp \in GateResponses :
       LET r == validate_input(resp) IN
       /\ gate_resp' = resp
       /\ calls' = [calls EXCEPT !.validate = @ + 1]
       /\ IF r.raised
          THEN /\ pc' = "graph_raised"
               /\ raised_in' = "validate"
               /\ UNCHANGED <<fraud_type, final_result>>
          ELSE /\ raised_in' = raised_in
               /\ fraud_type' = IF r.wrote THEN r.fraud_type ELSE fraud_type
               /\ final_result' = IF r.wrote THEN r.final_result ELSE final_result
               /\ pc' = IF should_continue_to_fraud_detection(fraud_type') = "end"
                        THEN "graph_end" ELSE "classify"
  /\ UNCHANGED <<request, parsed_data, ml_prediction, llm_analysis, analysis_resp,
                 response, events, words, i>>
  /\ UNCHANGED advisor_state

\* mutant of classify: a failed classification call is issued a second time
classify_retries ==
  /\ pc = "classify"
  /\ ran' = Append(ran, "classify")
  /\ calls' = [calls EXCEPT !.classify = @ + 1]
  /\ \/ /\ pc' = IF calls.classify = 0 THEN "classify" ELSE "graph_raised"
        /\ raised_in' = "classify"
        /\ UNCHANGED fraud_type
     \/ \E answer \in ClassifyAnswers :
          /\ fraud_type' = classify_fraud_type(user_input, answer)
          /\ pc' = "parse"
          /\ raised_in' = "none"
  /\ UNCHANGED <<request, parsed_data, ml_prediction, llm_analysis, final_result,
                 analysis_resp, gate_resp, response, events, words, i>>
  /\ UNCHANGED advisor_state

\* node "classify"
classify ==
  /\ pc = "classify"
  /\ ran' = Append(ran, "classify")
  /\ calls' = [calls EXCEPT !.classify = @ + 1]
  /\ \/ /\ pc' = "graph_raised"
        /\ raised_in' = "classify"
        /\ UNCHANGED fraud_type
     \/ \E answer \in ClassifyAnswers :
          /\ fraud_type' = classify_fraud_type(user_input, answer)
          /\ pc' = "parse"
          /\ UNCHANGED raised_in
  /\ UNCHANGED <<request, parsed_data, ml_prediction, llm_analysis, final_result,
                 analysis_resp, gate_resp, response, events, words, i>>
  /\ UNCHANGED advisor_state

\* node "parse"
parse ==
  /\ pc = "parse"
  /\ ran' = Append(ran, "parse")
  /\ calls' = [calls EXCEPT !.parse = @ + 1]
  /\ \/ /\ pc' = "graph_raised"
        /\ raised_in' = "parse"
        /\ UNCHANGED parsed_data
     \/ \E answer \in ParseAnswers :
          /\ parsed_data' = parse_input_data(answer)
          /\ pc' = "ml_predict"
          /\ UNCHANGED raised_in
  /\ UNCHANGED <<request, fraud_type, ml_prediction, llm_analysis, final_result,
                 analysis_resp, gate_resp, response, events, words, i>>
  /\ UNCHANGED advisor_state

\* node "ml_predict": inference on parsed data that is no dict raises
ml_predict ==
  /\ pc = "ml_predict"
  /\ ran' = Append(ran, "ml_predict")
  /\ \E outcome \in InferenceOutcomes :
       /\ parsed_data = "nondict" => outcome.raises
       /\ ModelKeyOf(fraud_type) \notin models => outcome.raises
       /\ ml_prediction' = run_ml_model(fraud_type, models, outcome)
  /\ calls' = [calls EXCEPT !.classifier =
                 IF ModelKeyOf(fraud_type) \in models THEN @ + 1 ELSE @]
  /\ pc' = "llm_analyze"
  /\ UNCHANGED <<request, fraud_type, parsed_data, llm_analysis, final_result,
                 raised_in, analysis_resp, gate_resp, response, events, words, i>>
  /\ UNCHANGED advisor_state

\* node "llm_analyze"
llm_analyze ==
  /\ pc = "llm_analyze"
  /\ ran' = Append(ran, "llm_analyze")
  /\ \E resp \in AnalysisResponses :
       LET r == llm_analysis_node(ml_prediction, resp) IN
       /\ ~r.called => resp.kind = "raise"
       /\ analysis_resp' = IF r.called THEN resp ELSE analysis_resp
       /\ calls' = [calls EXCEPT !.analyze = IF r.called THEN @ + 1 ELSE @]
       /\ IF r.raised
          THEN /\ pc' = "graph_raised"
               /\ raised_in' = "llm_analyze"
               /\ UNCHANGED llm_analysis
          ELSE /\ pc' = "finalize"
               /\ llm_analysis' = r.value
               /\ UNCHANGED raised_in
  /\ UNCHANGED <<request, fraud_type, parsed_data, ml_prediction, final_result,
                 gate_resp, response, events, words, i>>
  /\ UNCHANGED advisor_state

\* node "finalize"
finalize ==
  /\ pc = "finalize"
  /\ ran' = Append(ran, "finalize")
  /\ LET r == generate_final_result(fraud_type, ml_prediction, llm_analysis) IN
     /\ llm_analysis' = r.llm
     /\ IF r.raised
        THEN /\ pc' = "graph_raised"
             /\ raised_in' = "finalize"
             /\ UNCHANGED final_result
        ELSE /\ pc' = "graph_end"
             /\ final_result' = r.result
             /\ UNCHANGED raised_in
  /\ UNCHANGED <<request, fraud_type, parsed_data, ml_prediction, calls,
                 analysis_resp, gate_resp, response, events, words, i>>
  /\ UNCHANGED advisor_state

\* /api/detect: detector.detect_fraud returned final_state['final_result']
once_return ==
  /\ pc = "graph_end"
  /\ entry = "once"
  /\ response' = final_result
  /\ pc' = "done"
  /\ UNCHANGED <<ran, request, graph_state, calls, raised_in, analysis_resp, gate_resp, events,
                 words, i>>
  /\ UNCHANGED advisor_state

\* /api/detect: detector.detect_fraud raised, the handler builds a fallback
once_catch ==
  /\ pc = "graph_raised"
  /\ entry = "once"
  /\ response' = QueryValidatorResult
  /\ pc' = "done"
  /\ UNCHANGED <<ran, request, graph_state, calls, raised_in, analysis_resp, gate_resp, events,
                 words, i>>
  /\ UNCHANGED advisor_state

\* detect_fraud_stream after graph.invoke returned: the words to stream
stream_begin ==
  /\ pc = "graph_end"
  /\ entry = "stream"
  /\ words' = SplitSpaces(StreamedText(final_result))
  /\ i' = 0
  /\ pc' = "streaming"
  /\ UNCHANGED <<ran, request, graph_state, calls, raised_in, analysis_resp, gate_resp, response,
                 events>>
  /\ UNCHANGED advisor_state

\* one turn of the loop of detect_fraud_stream (and of the QR branch)
stream_chunk ==
  /\ pc = "streaming"
  /\ i < Len(words)
  /\ events' = Append(events, ContentEvent(ChunkAt(words, i)))
  /\ i' = i + chunk_size
  /\ UNCHANGED <<ran, pc, request, graph_state, calls, raised_in, analysis_resp, gate_resp,
                 response, words>>
  /\ UNCHANGED advisor_state

\* the completion marker after the loop
stream_complete ==
  /\ pc = "streaming"
  /\ i >= Len(words)
  /\ events' = Append(events, CompleteEvent(final_result))
  /\ pc' = "done"
  /\ UNCHANGED <<ran, request, graph_state, calls, raised_in, analysis_resp, gate_resp, response,
                 words, i>>
  /\ UNCHANGED advisor_state

\* generate_stream: detect_fraud_stream raised, the handler yields an error event
stream_error ==
  /\ pc = "graph_raised"
  /\ entry = "stream"
  /\ events' = Append(events, ErrorEvent)
  /\ pc' = "done"
  /\ UNCHANGED <<ran, request, graph_state, calls, raised_in, analysis_resp, gate_resp, response,
                 words, i>>
  /\ UNCHANGED advisor_state

\* QR branch: QRFraudDetector(...) and detect_fraud_from_base64
qr_detect ==
  /\ pc = "qr_detect"
  /\ calls' = [calls EXCEPT !.classifier = @ + 1]
  /\ \E outcome \in QrOutcomes :
       IF outcome.kind = "init_raises"
       THEN /\ pc' = "qr_failed"
            /\ raised_in' = "qr_detect"
            /\ UNCHANGED final_result
       ELSE /\ pc' = "qr_explain"
            /\ final_result' = detect_fraud_from_base64(outcome)
            /\ UNCHANGED raised_in
  /\ UNCHANGED <<ran, request, fraud_type, parsed_data, ml_prediction, llm_analysis,
                 analysis_resp, gate_resp, response, events, words, i>>
  /\ UNCHANGED advisor_state

\* QR branch: the explanation call; on success /api/detect returns the result
\* with the explanation, the stream starts to stream the explanation
qr_explain ==
  /\ pc = "qr_explain"
  /\ calls' = [calls EXCEPT !.explain = @ + 1]
  /\ \/ /\ pc' = "qr_failed"
        /\ raised_in' = "qr_explain"
        /\ UNCHANGED <<final_result, response, words, i>>
     \/ /\ final_result' = [final_result EXCEPT !.has_formatted_message = TRUE,
                                                 !.formatted_message = QrExplanation]
        /\ UNCHANGED raised_in
        /\ IF entry = "once"
           THEN /\ response' = final_result'
                /\ pc' = "done"
                /\ UNCHANGED <<words, i>>
           ELSE /\ words' = SplitSpaces(QrExplanation)
                /\ i' = 0
                /\ pc' = "streaming"
                /\ UNCHANGED response
  /\ UNCHANGED <<ran, request, fraud_type, parsed_data, ml_prediction, llm_analysis,
                 analysis_resp, gate_resp, events>>
  /\ UNCHANGED advisor_state

\* QR branch: the except handlers of main.py replace the result by an error result
qr_failed ==
  /\ pc = "qr_failed"
  /\ IF entry = "once"
     THEN /\ response' = [QrErrorResult EXCEPT
                            !.has_formatted_message = TRUE,
                            !.formatted_message =
                              QrErrorReasoning \o <<"\n", "\n">> \o QrErrorRecommendation]
          /\ UNCHANGED events
     ELSE /\ events' = events
                        \o <<ContentEvent(QrErrorReasoning \o <<"\n", "\n">>
                                            \o QrErrorRecommendation),
                             CompleteEvent(QrErrorResult)>>
          /\ UNCHANGED response
  /\ pc' = "done"
  /\ UNCHANGED <<ran, request, graph_state, calls, raised_in, analysis_resp, gate_resp, words, i>>
  /\ UNCHANGED advisor_state

\* mutant of stream_disconnect: the generator flushes the completion marker
\* when the caller disconnects
stream_disconnect_flushes ==
  /\ entry = "stream"
  /\ \/ pc \in {"validate", "qr_detect"}
     \/ pc = "streaming" /\ i > 0
  /\ pc' = "cancelled"
  /\ events' = Append(events, CompleteEvent(final_result))
  /\ UNCHANGED <<ran, request, graph_state, calls, raised_in, analysis_resp, gate_resp,
                 response, words, i>>
  /\ UNCHANGED advisor_state

\* the caller disconnects: the response task is cancelled and the generator
\* stops at the point where it is suspended, the yield of the start event
\* (before any call) or "await asyncio.sleep(0.05)" in the chunk loop; the
\* handlers "except Exception" do not catch the cancellation
stream_disconnect ==
  /\ entry = "stream"
  /\ \/ pc \in {"validate", "qr_detect"}
     \/ pc = "streaming" /\ i > 0
  /\ pc' = "cancelled"
  /\ UNCHANGED <<ran, request, graph_state, calls, raised_in, analysis_resp, gate_resp,
                 response, events, words, i>>
  /\ UNCHANGED advisor_state

\* the stages whose reasoning-service call is issued next, and its counter
AwaitingReasoning ==
  \/ pc \in {"validate", "classify", "parse", "qr_explain"}
  \/ pc = "llm_analyze" /\ use_llm(ml_prediction)

CallCounter(stage) ==
  IF stage = "llm_analyze" THEN "analyze"
  ELSE IF stage = "qr_explain" THEN "explain"
  ELSE stage

\* self.llm.invoke(...) is issued and the reasoning service never answers:
\* the client is built without a timeout (lines 212-217) and invoke is called
\* without one, so the call does not return
call_never_returns ==
  /\ AwaitingReasoning
  /\ calls' = [calls EXCEPT ![CallCounter(pc)] = @ + 1]
  /\ ran' = IF pc = "qr_explain" THEN ran ELSE Append(ran, pc)
  /\ raised_in' = pc
  /\ pc' = "blocked"
  /\ UNCHANGED <<request, graph_state, analysis_resp, gate_resp, response, events,
                 words, i>>
  /\ UNCHANGED advisor_state

\* /api/validate-query: validate_input alone, then the answer of the endpoint
\* (is_valid_fraud_query is computed from the fraud_type left in the state);
\* an exception becomes an HTTP error
validate_query ==
  /\ pc = "validate_query"
  /\ \E resp \in GateResponses :
       LET r == validate_input(resp) IN
       /\ gate_resp' = resp
       /\ calls' = [calls EXCEPT !.validate = @ + 1]
       /\ raised_in' = IF r.raised THEN "validate_query" ELSE raised_in
       /\ fraud_type' = IF r.wrote THEN r.fraud_type ELSE fraud_type
       /\ final_result' = IF r.wrote THEN r.final_result ELSE final_result
  /\ pc' = "validated"
  /\ UNCHANGED <<ran, request, parsed_data, ml_prediction, llm_analysis, analysis_resp,
                 response, events, words, i, advisor_state>>

\* advisor node "validate" and the conditional edge after it
advisor_validate ==
  /\ pc = "advisor_validate"
  /\ advisor_state' = advisor_validate_input(advisor_state, user_input)
  /\ pc' = IF should_continue(advisor_state') = "end" THEN "advisor_format"
           ELSE "advisor_categorize"
  /\ UNCHANGED <<ran, request, graph_state, calls, raised_in, analysis_resp, gate_resp,
                 response, events, words, i>>

\* advisor node "categorize"
advisor_categorize ==
  /\ pc = "advisor_categorize"
  /\ IF ~advisor_state.is_valid
     THEN /\ pc' = "advisor_generate"
          /\ UNCHANGED <<advisor_state, calls, raised_in>>
     ELSE /\ calls' = [calls EXCEPT !.categorize = @ + 1]
          /\ \E resp \in CategorizeResponses :
               LET r == categorize_query(advisor_state, resp) IN
               /\ advisor_state' = r.state
               /\ pc' = IF r.raised THEN "advisor_raised" ELSE "advisor_generate"
               /\ raised_in' = IF r.raised THEN "categorize" ELSE raised_in
  /\ UNCHANGED <<ran, request, graph_state, analysis_resp, gate_resp, response, events,
                 words, i>>

\* advisor node "generate"
advisor_generate ==
  /\ pc = "advisor_generate"
  /\ IF ~advisor_state.is_valid
     THEN /\ pc' = "advisor_format"
          /\ UNCHANGED <<advisor_state, calls, raised_in>>
     ELSE IF EnumRaises(advisor_state)
     THEN /\ pc' = "advisor_raised"
          /\ raised_in' = "generate"
          /\ UNCHANGED <<advisor_state, calls>>
     ELSE /\ calls' = [calls EXCEPT !.generate = @ + 1]
          /\ \/ /\ pc' = "advisor_raised"
                /\ raised_in' = "generate"
                /\ UNCHANGED advisor_state
             \/ \E text \in GenerationTexts :
                  /\ advisor_state' =
                       [advisor_state EXCEPT !.response_text = StripLines(text)]
                  /\ pc' = "advisor_format"
                  /\ UNCHANGED raised_in
  /\ UNCHANGED <<ran, request, graph_state, analysis_resp, gate_resp, response, events,
                 words, i>>

\* advisor node "format"; graph.invoke returns
advisor_format ==
  /\ pc = "advisor_format"
  /\ advisor_state' = format_output(advisor_state)
  /\ pc' = "advised"
  /\ UNCHANGED <<ran, request, graph_state, calls, raised_in, analysis_resp, gate_resp,
                 response, events, words, i>>

Next ==
  \/ api_request
  \/ validate
  \/ classify
  \/ parse
  \/ ml_predict
  \/ llm_analyze
  \/ finalize
  \/ once_return
  \/ once_catch
  \/ stream_begin
  \/ stream_chunk
  \/ stream_complete
  \/ stream_error
  \/ qr_detect
  \/ qr_explain
  \/ qr_failed
  \/ stream_disconnect
  \/ call_never_returns
  \/ validate_query
  \/ advisor_validate
  \/ advisor_categorize
  \/ advisor_generate
  \/ advisor_format

Spec == Init /\ [][Next]_vars

(***************************************************************************)
(* Properties                                                               *)
(***************************************************************************)
\* the request is handled by the text workflow (the graph)
TextRequest == entry \in {"once", "stream"} /\ ~(has_image /\ qr_available)

\* the graph entered the node
Has(node) == \E k \in 1..Len(ran) : ran[k] = node

\* the fuser has run and stored its verdict in final_result
Fused == TextRequest /\ Has("finalize") /\ raised_in = "none"

\* the risk tier of section 4.5 of the specification
SpecTier(is_fraud, confidence) ==
  IF ~is_fraud THEN "LOW"
  ELSE IF confidence >= 90000 THEN "CRITICAL"
  ELSE IF confidence >= 75000 THEN "HIGH"
  ELSE IF confidence >= 60000 THEN "MEDIUM"
  ELSE "LOW"

\* C1: when the fuser runs on an available model opinion whose larger class
\* probability is at least 0.70, it does not raise and the verdict has method
\* ML_MODEL, is_fraud = (prediction = 1) and that probability as confidence;
\* a fraud probability of 0.95 gives is_fraud, 0.95 and CRITICAL; the fuser
\* gives the same on that model opinion with any other dict as llm_analysis.
C1_HighConfidenceModel ==
  LET ml == ml_prediction
      top == Max(ml.probability_fraud, ml.probability_legitimate)
  IN (TextRequest /\ Has("finalize") /\ ml.model_available /\ top >= 70000) =>
       /\ raised_in = "none"
       /\ final_result.detection_method = "ML_MODEL"
       /\ final_result.is_fraud = (ml.prediction = 1)
       /\ final_result.confidence = top
       /\ ml.probability_fraud = 95000 =>
            /\ final_result.is_fraud
            /\ final_result.confidence = 95000
            /\ final_result.risk_level = "CRITICAL"
       /\ pc = "graph_end" =>
            \A llm \in {v \in AnalysisJsonValues : v.type = "dict"} :
              LET g == generate_final_result(fraud_type, ml, llm) IN
              /\ ~g.raised
              /\ g.result.detection_method = "ML_MODEL"
              /\ g.result.is_fraud = (ml.prediction = 1)
              /\ g.result.confidence = top

C1_Witness ==
  /\ Fused
  /\ ml_prediction.model_available
  /\ ml_prediction.probability_fraud = 95000
  /\ final_result.detection_method = "ML_MODEL"
  /\ final_result.risk_level = "CRITICAL"

\* C2: in a run that passed the gate, the analysis call is made by the
\* llm_analyze stage if and only if the model opinion is unavailable or its
\* confidence is below 0.70; with an available opinion of confidence >= 0.70
\* no analysis call is made and the verdict's method is ML_MODEL.
C2_ReasoningGating ==
  LET ml == ml_prediction
      needed == ~ml.model_available \/ ml.confidence < 70000
  IN TextRequest =>
       /\ ~Has("llm_analyze") => calls.analyze = 0
       /\ Has("llm_analyze") => (calls.analyze = IF needed THEN 1 ELSE 0)
       /\ (Has("finalize") /\ ~needed) =>
            /\ calls.analyze = 0
            /\ raised_in = "none"
            /\ final_result.detection_method = "ML_MODEL"

C2_Witness ==
  /\ Fused
  /\ ml_prediction.model_available
  /\ ml_prediction.confidence = 70000
  /\ calls.analyze = 0
  /\ final_result.detection_method = "ML_MODEL"

\* C3: when the model is not both available and of confidence >= 0.70 and the
\* reasoning opinion carries is_fraud, the verdict has method LLM_REASONING
\* with the opinion's is_fraud and its confidence (0.8 when it states none),
\* also when a low-confidence model opinion is available.
C3_ReasoningBranch ==
  (/\ Fused
   /\ ~(ml_prediction.model_available /\ ml_prediction.confidence >= 70000)
   /\ "is_fraud" \in llm_analysis.keys) =>
    /\ final_result.detection_method = "LLM_REASONING"
    /\ final_result.is_fraud = llm_analysis.is_fraud
    /\ final_result.confidence =
         IF "confidence" \in llm_analysis.keys THEN llm_analysis.confidence ELSE 80000

C3_Witness ==
  /\ Fused
  /\ ml_prediction.model_available
  /\ ml_prediction.confidence < 70000
  /\ ml_prediction.prediction = 1
  /\ "is_fraud" \in llm_analysis.keys
  /\ ~llm_analysis.is_fraud
  /\ llm_analysis.confidence = 90000
  /\ final_result.detection_method = "LLM_REASONING"
  /\ ~final_result.is_fraud
  /\ final_result.confidence = 90000

\* C4: a HYBRID verdict comes from an available model opinion of confidence
\* below 0.70; its is_fraud is modelFraud OR reasoningFraud (the reasoning label
\* is the model's when the opinion states none), so it is fraud whenever a
\* constituent says fraud, and its confidence is the larger of the two
\* confidences when the verdict is fraud and the smaller otherwise (the
\* reasoning confidence is 0.5 when the opinion states none).
C4_HybridBranch ==
  LET ml_fraud == ml_prediction.prediction = 1
      llm_fraud == IF "is_fraud" \in llm_analysis.keys
                   THEN llm_analysis.is_fraud ELSE ml_fraud
      llm_conf == IF "confidence" \in llm_analysis.keys
                  THEN llm_analysis.confidence ELSE 50000
  IN (Fused /\ final_result.detection_method = "HYBRID") =>
       /\ ml_prediction.model_available
       /\ ml_prediction.confidence < 70000
       /\ final_result.is_fraud = (ml_fraud \/ llm_fraud)
       /\ (ml_fraud \/ llm_fraud) => final_result.is_fraud
       /\ final_result.confidence =
            IF final_result.is_fraud
            THEN Max(ml_prediction.confidence, llm_conf)
            ELSE Min(ml_prediction.confidence, llm_conf)

C4_Witness ==
  /\ Fused
  /\ final_result.detection_method = "HYBRID"
  /\ final_result.is_fraud
  /\ ml_prediction.confidence = 60000
  /\ llm_analysis.confidence = 90000
  /\ final_result.confidence = 90000

\* the text holds the word
HasWord(text, w) == \E k \in 1..Len(text) : text[k] = w

\* C5: with no model opinion and no reasoning opinion the verdict is not
\* fraud, confidence 0.5, method FALLBACK, risk LOW, and its reasoning says the
\* analysis could not be performed and recommends manual review; the method
\* FALLBACK is produced in no other situation.
C5_FallbackBranch ==
  Fused =>
    LET neither == ~ml_prediction.model_available /\ "is_fraud" \notin llm_analysis.keys
    IN /\ neither =>
            /\ ~final_result.is_fraud
            /\ final_result.confidence = 50000
            /\ final_result.detection_method = "FALLBACK"
            /\ final_result.risk_level = "LOW"
            /\ HasWord(final_result.reasoning, "Unable")
            /\ HasWord(final_result.reasoning, "manual")
            /\ HasWord(final_result.reasoning, "review")
       /\ final_result.detection_method = "FALLBACK" => neither

C5_Witness ==
  /\ Fused
  /\ final_result.detection_method = "FALLBACK"
  /\ calls.analyze = 1

\* C6: the risk tier of every verdict of the fuser, and of every verdict of
\* the QR classifier, is the tier the specification gives for its is_fraud and
\* confidence: CRITICAL from 0.9, HIGH from 0.75, MEDIUM from 0.6, else LOW,
\* and LOW when not fraud.
C6_RiskTier ==
  /\ Fused =>
       final_result.risk_level =
         SpecTier(final_result.is_fraud, final_result.confidence)
  /\ (~TextRequest /\ final_result.present /\ final_result.detection_method = "ML_MODEL") =>
       final_result.risk_level =
         SpecTier(final_result.is_fraud, final_result.confidence)

C6_Witness ==
  /\ Fused
  /\ final_result.is_fraud
  /\ final_result.confidence = 90000
  /\ final_result.risk_level = "CRITICAL"

\* (model available, model confidence >= 0.70, reasoning opinion available)
Triple(ml, llm) ==
  <<ml.model_available, ml.confidence >= 70000, "is_fraud" \in llm.keys>>

\* the opinions run_ml_model can store
MlOpinions ==
  {run_ml_model(ft, ms, o) : ft \in valid_types, ms \in Registries, o \in InferenceOutcomes}

\* C7: any other fusion (of any model opinion and any analysis answer the
\* workflow can fuse) that agrees with this request's fusion on the triple
\* (model available, model confidence >= 0.70, reasoning opinion available)
\* has the same method tag.
C7_MethodDependsOnTriple ==
  (Fused /\ pc = "graph_end") =>
    \A ml2 \in MlOpinions, resp2 \in AnalysisResponses :
      LET a == llm_analysis_node(ml2, resp2)
          llm2 == SanitizeLlm(a.value)
      IN (/\ ~a.raised
          /\ ~FusionRaises(ml2, llm2)
          /\ Triple(ml2, llm2) = Triple(ml_prediction, llm_analysis)) =>
           FusionBranch(ml2, llm2) = final_result.detection_method

C7_Witness ==
  /\ Fused
  /\ pc = "graph_end"
  /\ Triple(ml_prediction, llm_analysis) = <<TRUE, FALSE, TRUE>>
  /\ final_result.detection_method = "LLM_REASONING"
  /\ \E ml2 \in MlOpinions, resp2 \in AnalysisResponses :
       LET a == llm_analysis_node(ml2, resp2) IN
       /\ ~a.raised
       /\ ~FusionRaises(ml2, a.value)
       /\ Triple(ml2, a.value) = <<TRUE, FALSE, TRUE>>
       /\ ml2 # ml_prediction
       /\ a.value.is_fraud # llm_analysis.is_fraud

\* C8 (as claimed): when the analysis call raises, the reasoning stage does
\* not raise; it stores an opinion with is_fraud false and confidence 0 and
\* the workflow goes on to the fuser.
C8_AnalysisFailureYieldsOpinion ==
  (TextRequest /\ analysis_resp.kind = "raise") =>
    /\ raised_in = "none"
    /\ "is_fraud" \in llm_analysis.keys
    /\ ~llm_analysis.is_fraud
    /\ llm_analysis.confidence = 0

\* C9 (as claimed): a finished text request has propagated no exception out
\* of the workflow; /api/detect has returned a result and the stream has ended
\* with a completion marker that carries a verdict.
C9_NoFailureIsFatal ==
  (TextRequest /\ pc = "done") =>
    /\ raised_in = "none"
    /\ entry = "once" => response.present
    /\ entry = "stream" =>
         /\ events # <<>>
         /\ events[Len(events)].is_complete
         /\ events[Len(events)].result.present

\* C10: when the analysis answer is no valid JSON, no error is raised and the
\* opinion is is_fraud with confidence 0.8 if one of the words fraud,
\* fraudulent, suspicious, malicious, spam occurs in the lower-cased answer,
\* and not fraud with confidence 0.6 otherwise.
C10_KeywordFallback ==
  (TextRequest /\ analysis_resp.kind = "prose") =>
    LET found ==
          \E k \in 1..Len(analysis_resp.content) :
            Lower(analysis_resp.content[k])
              \in {"fraud", "fraudulent", "suspicious", "malicious", "spam"}
    IN /\ raised_in = "none"
       /\ llm_analysis.type = "dict"
       /\ "is_fraud" \in llm_analysis.keys
       /\ llm_analysis.is_fraud = found
       /\ llm_analysis.confidence = IF found THEN 80000 ELSE 60000
       /\ llm_analysis.confidence \in {60000, 80000}

C10_Witness ==
  /\ TextRequest
  /\ analysis_resp.kind = "prose"
  /\ HasWord(analysis_resp.content, "Fraudulent")
  /\ llm_analysis.is_fraud
  /\ llm_analysis.confidence = 80000
  /\ Has("finalize")

\* C11 (as claimed): with no model for the message domain and an analysis
\* answer that is unparseable prose containing the word "prize", the verdict
\* is is_fraud, confidence 0.8, method LLM_REASONING.
C11_PrizeScenario ==
  (/\ Fused
   /\ fraud_type = "email_spam"
   /\ ~ml_prediction.model_available
   /\ analysis_resp.kind = "prose"
   /\ HasWord(analysis_resp.content, "prize")) =>
    /\ final_result.is_fraud
    /\ final_result.confidence = 80000
    /\ final_result.detection_method = "LLM_REASONING"

\* the classifier adapter's contract, with the method tag it leaves when no
\* classifier is registered: the stage does not raise and the workflow goes on
\* to llm_analyze; without a classifier the opinion is unavailable with that
\* tag; a failed inference leaves an unavailable opinion tagged
\* ERROR_FALLBACK_TO_LLM; and after a failed inference the stages raise, and
\* the verdict is, as for the same analysis answer with no classifier at all
NoClassifierContract(tag) ==
  (TextRequest /\ Has("ml_predict")) =>
    LET ml == ml_prediction
        failed == [raises |-> TRUE, proba_fraud |-> 0]
        ml0 == run_ml_model(fraud_type, {}, failed)
        a == llm_analysis_node(ml0, analysis_resp)
        g == generate_final_result(fraud_type, ml0, a.value)
    IN /\ raised_in # "ml_predict"
       /\ pc = "llm_analyze" \/ Has("llm_analyze")
       /\ ModelKeyOf(fraud_type) \notin models =>
            ~ml.model_available /\ ml.method = tag
       /\ ModelKeyOf(fraud_type) \in models =>
            LET e == run_ml_model(fraud_type, models, failed) IN
            ~e.model_available /\ e.method = "ERROR_FALLBACK_TO_LLM"
       /\ ml.method = "ERROR_FALLBACK_TO_LLM" =>
            /\ ~ml.model_available
            /\ ModelKeyOf(fraud_type) \in models
       /\ (ml.method = "ERROR_FALLBACK_TO_LLM" /\ pc \in {"graph_end", "graph_raised"}) =>
            /\ (raised_in = "llm_analyze") = a.raised
            /\ ~a.raised => (raised_in = "finalize") = g.raised
            /\ raised_in = "none" =>
                 /\ final_result.is_fraud = g.result.is_fraud
                 /\ final_result.confidence = g.result.confidence
                 /\ final_result.risk_level = g.result.risk_level
                 /\ final_result.detection_method = g.result.detection_method

\* C12 (as claimed): the classifier adapter's contract with method NONE when
\* no classifier is registered for the domain.
C12_NoClassifierIsNone == NoClassifierContract("NONE")

\* C12 (amended): the classifier adapter never raises; with no classifier
\* registered the opinion is unavailable with method LLM_ONLY, after a failed
\* inference it is unavailable with method ERROR_FALLBACK_TO_LLM; the workflow
\* continues in both cases and, for the same analysis answer, the verdict after
\* a failed inference is the verdict with no classifier registered.
C12_ClassifierAdapterNeverRaises == NoClassifierContract("LLM_ONLY")

C12_Witness ==
  /\ Fused
  /\ ml_prediction.method = "ERROR_FALLBACK_TO_LLM"
  /\ final_result.detection_method = "LLM_REASONING"
  /\ final_result.is_fraud
  /\ final_result.risk_level = "CRITICAL"

\* C13 (as claimed): a request whose text the pre-filter rejects (such as
\* "aaaaaaaaaa") ends at the gate as garbage or invalid, and no call to the
\* reasoning service is made for it.
C13_GatePreFilter ==
  (/\ TextRequest
   /\ InputValidator_validate(QueryChars(user_input)) # "valid"
   /\ Has("validate")) =>
    /\ calls.validate = 0
    /\ calls.classify + calls.parse + calls.analyze = 0
    /\ ran = <<"validate">>
    /\ raised_in = "none"
    /\ fraud_type \in {"garbage", "invalid_query"}

\* the gate prompt was answered by a JSON object
GateAnswered == TextRequest /\ Has("validate") /\ gate_resp.kind = "dict"

\* no stage after the gate has run or called its collaborator
EndedAtGate ==
  /\ ran = <<"validate">>
  /\ pc \in {"graph_end", "streaming", "done", "cancelled"}
  /\ raised_in = "none"
  /\ calls.classify = 0 /\ calls.parse = 0 /\ calls.classifier = 0 /\ calls.analyze = 0
  /\ ml_prediction = NoPrediction
  /\ llm_analysis = EmptyDict

\* C14: when the gate's answer says the input is no fraud request, with
\* category CONVERSATION, OFF_TOPIC or GARBAGE, the workflow ends at the gate:
\* no later stage runs, and the result is the gate's direct response
\* (is_fraud false, the conversational response as text), which is also what
\* /api/detect returns and what the completion marker of the stream carries.
C14_GateEarlyExit ==
  (/\ GateAnswered
   /\ ~gate_resp.is_fraud_request
   /\ gate_resp.category \in {"CONVERSATION", "OFF_TOPIC", "GARBAGE"}) =>
    /\ EndedAtGate
    /\ final_result.present
    /\ ~final_result.is_fraud
    /\ final_result.detection_method = "CONVERSATIONAL_AI"
    /\ final_result.recommendation = GateReply
    /\ (pc = "done" /\ entry = "once") => response = final_result
    /\ (pc = "done" /\ entry = "stream") =>
         /\ events # <<>>
         /\ events[Len(events)].is_complete
         /\ events[Len(events)].result = final_result

C14_Witness ==
  /\ GateAnswered
  /\ ~gate_resp.is_fraud_request
  /\ gate_resp.category = "GARBAGE"
  /\ pc = "done"
  /\ entry = "once"
  /\ ran = <<"validate">>
  /\ response.present
  /\ response.recommendation = GateReply

\* the gate answer is not the expected structured result: no JSON, JSON that
\* is no object, or an object whose category is no string
GateUnparseable ==
  \/ gate_resp.kind \in {"prose", "nondict"}
  \/ gate_resp.kind = "dict" /\ gate_resp.category = "null"

\* C15 (as claimed): when the gate answer cannot be parsed as the expected
\* structured result, the gate does not raise; it leaves category conversation
\* with the canned fallback message, is_fraud false, and the workflow ends at
\* the gate.
C15_GateParseFailure ==
  (TextRequest /\ Has("validate") /\ GateUnparseable) =>
    /\ EndedAtGate
    /\ fraud_type = "conversation"
    /\ final_result.present
    /\ ~final_result.is_fraud
    /\ final_result.fraud_type = "conversation"
    /\ final_result.recommendation = GateFallbackReply

\* texts for the domain classifier: one keyword list, several, none
ClassifyTexts ==
  UserInputs
    \cup {<<"check", " ", "transaction">>, <<"transaction", " ", "link">>,
          <<"SPAM", " ", "transaction">>, <<"open", " ", "link">>,
          <<"SPAM", " ", "website">>, <<"hello">>}

\* the domain tag the specification gives for a text and an answer
SpecDomain(text, answer) ==
  LET Mentions(ws) == \E k \in 1..Len(text) : Lower(text[k]) \in ws IN
  IF Lower(answer) \in {"credit_card", "email_spam", "url_fraud", "upi_fraud"}
  THEN Lower(answer)
  ELSE IF Mentions({"transaction", "amount", "v1", "v2"}) THEN "credit_card"
  ELSE IF Mentions({"message", "sms", "email", "text", "spam"}) THEN "email_spam"
  ELSE IF Mentions({"url", "link", "website", "http", "https"}) THEN "url_fraud"
  ELSE "upi_fraud"

\* C16: once the domain classifier has answered, fraud_type is one tag of
\* {credit_card, email_spam, url_fraud, upi_fraud} and it is the tag of some
\* answer for this input; for every text and every answer, the classifier
\* gives the answer (lower-cased) when it is in the set, else the first of
\* credit_card, email_spam, url_fraud whose keywords occur in the lower-cased
\* text, else upi_fraud.
C16_DomainClassification ==
  (TextRequest /\ Has("classify") /\ raised_in # "classify") =>
    /\ fraud_type \in {"credit_card", "email_spam", "url_fraud", "upi_fraud"}
    /\ \E answer \in ClassifyAnswers : fraud_type = SpecDomain(user_input, answer)
    /\ pc = "parse" =>
         \A text \in ClassifyTexts, answer \in ClassifyAnswers :
           classify_fraud_type(text, answer) = SpecDomain(text, answer)

C16_Witness ==
  /\ TextRequest
  /\ pc = "parse"
  /\ user_input = <<"aaaaaaaaaa">>
  /\ fraud_type = "upi_fraud"
  /\ classify_fraud_type(<<"SPAM", " ", "website">>, "payment") = "email_spam"
  /\ classify_fraud_type(<<"transaction", " ", "link">>, "payment") = "credit_card"
  /\ classify_fraud_type(<<"hello">>, "Credit_Card") = "credit_card"

\* C17 (as claimed): a request that carries an image is handled in the QR
\* domain and never runs the text gate or the domain classifier, in both entry
\* points and whether or not the QR detector module could be loaded.
C17_ImageRouting ==
  has_image =>
    /\ ~Has("validate")
    /\ ~Has("classify")
    /\ calls.validate = 0
    /\ calls.classify = 0
    /\ pc \notin {"validate", "classify"}
    /\ final_result.present => final_result.fraud_type = "qr_fraud"

\* a stream that ran to its end without an exception
StreamDone == pc = "done" /\ entry = "stream" /\ raised_in = "none"

\* the explanation text of a result
Explanation(result) ==
  IF result.has_formatted_message THEN result.formatted_message ELSE result.reasoning

RECURSIVE ConcatContent(_)
\* the contents of the content chunks, concatenated in emission order
ConcatContent(evs) ==
  IF evs = <<>> THEN <<>>
  ELSE (IF Head(evs).type = "content" THEN Head(evs).content ELSE <<>>)
         \o ConcatContent(Tail(evs))

\* number of whitespace-separated words of a text
WhitespaceWords(text) ==
  Cardinality({k \in 1..Len(text) :
                 ~IsSpace(text[k]) /\ (k = 1 \/ IsSpace(text[k - 1]))})

\* number of pieces of a text between its single spaces
SpacePieces(text) == Cardinality({k \in 1..Len(text) : text[k] = " "}) + 1

\* a finished stream is ceil(n/3) content chunks and then one completion
\* marker that carries the verdict; a completion marker is always last
StreamShape(n) ==
  /\ (entry = "stream" /\ raised_in = "none") =>
       \A k \in 1..(Len(events) - 1) : ~events[k].is_complete
  /\ StreamDone =>
       /\ Len(events) = ((n + 2) \div 3) + 1
       /\ \A k \in 1..(Len(events) - 1) :
            events[k].type = "content" /\ ~events[k].is_complete
       /\ events[Len(events)].type = "complete"
       /\ events[Len(events)].is_complete
       /\ events[Len(events)].result.present
       /\ events[Len(events)].result = final_result

MarkedTexts ==
  {<<"K", "\n", "Looks", " ", "bad">>,
   <<"AI", " ", "K", "\n", "bad">>,
   <<"bad", "\n", "OK", "\n">>,
   <<"so", " ", " ", "bad">>}

\* C19: when a stream has ended, the contents of its content chunks,
\* concatenated in emission order, are exactly the formatted_message of the
\* verdict in the completion marker; before that they are a prefix of it; the
\* same holds for messages built from reasoning texts with stray markers.
C19_StreamingRoundTrip ==
  (entry = "stream" /\ raised_in = "none" /\ final_result.has_formatted_message
     /\ pc \in {"streaming", "done"}) =>
    LET text == ConcatContent(events)
        msg == final_result.formatted_message
    IN /\ Len(text) <= Len(msg)
       /\ text = SubSeq(msg, 1, Len(text))
       /\ pc = "done" =>
            /\ text = msg
            /\ events[Len(events)].result.formatted_message = text
       /\ (pc = "done" /\ final_result.detection_method = "FALLBACK") =>
            \A r \in MarkedTexts :
              LET m == FormattedMessage(fraud_type, TRUE, 90000, "CRITICAL",
                                        "LLM_REASONING", clean_response_text(r),
                                        LlmRecommendations, <<r>>)
                  ws == SplitSpaces(clean_response_text(m))
                  Chunks[k \in 0..Len(ws)] ==
                    IF k >= Len(ws) THEN <<>>
                    ELSE ChunkAt(ws, k) \o Chunks[IF k + 3 > Len(ws) THEN Len(ws) ELSE k + 3]
              IN Chunks[0] = m

C19_Witness ==
  /\ StreamDone
  /\ Fused
  /\ final_result.has_formatted_message
  /\ Len(events) > 10
  /\ ConcatContent(events) = events[Len(events)].result.formatted_message
  /\ HasWord(ConcatContent(events), "\n")

\* C20 (as claimed): when the gate ended the workflow, the text streamed is
\* the gate's direct response to the user, the conversational response that
\* /api/detect returns as recommendation for the same answer.
C20_GateStreamIsDirectResponse ==
  (StreamDone /\ TextRequest /\ ran = <<"validate">>) =>
    ConcatContent(events) = final_result.recommendation

\* ---------------------------------------------------------------------------
\* Stage order (build_graph)

\* the nodes of the graph in the order of its edges
StageOrder == <<"validate", "classify", "parse", "ml_predict", "llm_analyze", "finalize">>

\* the nodes entered so far are the first nodes of the edge order: the gate
\* is first, no node is entered twice or out of order, and the fuser is
\* entered only after the classifier node and the reasoning node
StagesInOrder == Len(ran) <= Len(StageOrder) /\ ran = SubSeq(StageOrder, 1, Len(ran))

\* graph.invoke is over (it returned or it raised)
GraphOver == pc \in {"graph_end", "graph_raised", "streaming", "done"}

\* C21: every text request executes the gate first; after the gate there is
\* a single branch point, and a run that continues executes domain
\* classification, parsing, classifier prediction, reasoning analysis and
\* fusion each exactly once in that order and then ends; fusion never starts
\* before the classifier stage and the reasoning stage have completed, and
\* no stage is re-entered.
C21_StageOrder ==
  TextRequest =>
    /\ StagesInOrder
    /\ pc \in {"classify", "parse", "ml_predict", "llm_analyze", "finalize"} =>
         Len(ran) >= 1 /\ ran[1] = "validate"
    /\ pc = "finalize" => Has("ml_predict") /\ Has("llm_analyze")
    /\ GraphOver => ran = <<"validate">> \/ ran = StageOrder

\* the part of the stage order that holds in every run: the nodes run in the
\* order of the edges, and a run that no exception leaves executes the gate
\* alone or all six nodes
StageOrderUnlessRaised ==
  TextRequest =>
    /\ StagesInOrder
    /\ GraphOver /\ raised_in = "none" => ran = <<"validate">> \/ ran = StageOrder

\* ---------------------------------------------------------------------------
\* Cooperative streaming (detect_fraud_stream, generate_stream)

\* C22: all external calls (reasoning service and classifier) of a streaming
\* request happen before the first content chunk is emitted; once streaming
\* has begun, and in particular after the caller disconnects mid-stream, no
\* further external call is issued and no remaining chunk or completion
\* marker is produced.
C22_CooperativeStreaming ==
  [][/\ (entry = "stream" /\ (events # <<>> \/ pc = "streaming")) => calls' = calls
     /\ (pc = "cancelled" \/ pc' = "cancelled") => events' = events /\ calls' = calls]_vars

\* the caller disconnected after the first chunks, with chunks left to send,
\* and the calls of the request were made before
C22_Witness ==
  /\ pc = "cancelled"
  /\ events # <<>>
  /\ i < Len(words)
  /\ calls.validate = 1 /\ calls.analyze = 1

\* ---------------------------------------------------------------------------
\* External calls per request

\* the calls made to the reasoning service by the stages of the graph
ReasoningCalls == calls.validate + calls.classify + calls.parse + calls.analyze

\* C23: within one request each stage issues its reasoning-service call at
\* most once and a failed call is never re-issued; a request makes exactly
\* one reasoning-service call when the gate short-circuits on well-formed
\* input, and at most four (gate, domain classification, parsing, analysis)
\* otherwise.
C23_NoRetry ==
  /\ [](/\ \A stage \in DOMAIN calls : calls[stage] <= 1
        /\ EndedAtGate /\ gate_resp.kind = "dict" => ReasoningCalls = 1 /\ calls.explain = 0
        /\ TextRequest => ReasoningCalls <= 4 /\ calls.explain = 0
        /\ entry \in {"once", "stream"} /\ has_image /\ qr_available => ReasoningCalls = 0)
  /\ [][raised_in # "none" => calls' = calls]_vars

\* a request ended after one call of each of its four calling stages
C23_Witness == pc = "done" /\ TextRequest /\ ReasoningCalls = 4 /\ raised_in = "none"

\* ---------------------------------------------------------------------------
\* Unanswered calls

\* the reasoning service has not answered the call of the stage raised_in
CallUnanswered == pc = "blocked"

\* C24: if the reasoning service or the classifier never responds to a call,
\* the call times out and is handled exactly like a call failure, so every
\* request still eventually completes with a verdict instead of blocking
\* forever or surfacing an unhandled fault. (A request whose call is not
\* answered always has a next step, the handling of the timeout.)
C24_BoundedExternalCalls == CallUnanswered => ENABLED Next

\* ---------------------------------------------------------------------------
\* Gate routing

\* the gate node returned (the reasoning service answered its prompt)
GateReturned == TextRequest /\ Has("validate") /\ gate_resp.kind \notin {"none", "raise"}

\* the conditional edge after the gate led to END
RoutedToEnd == ran = <<"validate">> /\ pc \in {"graph_end", "streaming", "done", "cancelled"}

\* the conditional edge after the gate led to the node classify
RoutedToClassify == pc = "classify" \/ Has("classify")

\* C25: gate routing agrees with the gate decision for every possible
\* reasoning-service answer: the graph routes to END after validate_input if
\* and only if validate_input wrote a conversational final_result
\* (is_fraud_request false), including when the returned category string is
\* outside the expected set; a conversational final_result is never followed
\* by the classify..finalize stages overwriting it.
C25_GateRoutingAgrees ==
  GateReturned =>
    /\ validate_input(gate_resp).wrote => RoutedToEnd /\ ~RoutedToClassify
    /\ ~validate_input(gate_resp).wrote => RoutedToClassify /\ ~RoutedToEnd
    /\ validate_input(gate_resp).wrote =>
         final_result.detection_method = "CONVERSATIONAL_AI"

\* ---------------------------------------------------------------------------
\* Fusion over the shapes of the analysis answer

\* the fuser ran on an analysis answer that json.loads accepted
FusedJsonAnswer == TextRequest /\ Has("finalize") /\ analysis_resp.kind = "json"

FusionMethods == {"ML_MODEL", "LLM_REASONING", "HYBRID", "FALLBACK"}

\* C26: fusion is total over reasoning-service output: for every analysis
\* response that parses as valid JSON, including JSON that is not an object
\* (a list, number, string or null) and objects lacking is_fraud,
\* generate_final_result completes and produces a verdict whose method is one
\* of ML_MODEL, LLM_REASONING, HYBRID, FALLBACK; it never raises.
C26_FusionTotal ==
  FusedJsonAnswer =>
    /\ raised_in # "finalize"
    /\ final_result.present
    /\ final_result.detection_method \in FusionMethods

\* ---------------------------------------------------------------------------
\* The verdict of the QR classifier

\* the result the caller received: the body of /api/detect, or the result of
\* the last event of /api/detect/stream
Returned == IF entry = "once" THEN response ELSE events[Len(events)].result

\* an image request is over and the QR classifier had produced a verdict
QrVerdictReturned ==
  /\ has_image /\ qr_available
  /\ pc = "done"
  /\ final_result.present
  /\ final_result.detection_method = "ML_MODEL"

\* C27: in the image branch of /api/detect and /api/detect/stream, once the
\* QR classifier has produced a verdict, the is_fraud, confidence and
\* risk_level returned to the caller equal the classifier's values whether or
\* not the subsequent explanation call to the reasoning service succeeds; a
\* failure of that call never turns a fraudulent QR verdict into
\* is_fraud = false.
C27_QrVerdictPreserved ==
  QrVerdictReturned =>
    /\ Returned.is_fraud = final_result.is_fraud
    /\ Returned.confidence = final_result.confidence
    /\ Returned.risk_level = final_result.risk_level

\* ---------------------------------------------------------------------------
\* /api/validate-query

\* /api/validate-query answered after validate_input returned
QueryValidated == entry = "validate_query" /\ pc = "validated" /\ raised_in = "none"

\* validate_input short-circuited with a conversational result
GateShortCircuited == final_result.detection_method = "CONVERSATIONAL_AI"

\* C28: the /api/validate-query endpoint reports is_valid_fraud_query = true
\* only when the gate classified the input as a fraud request: whenever
\* validate_input short-circuits with a conversational result (category
\* conversation, garbage or off_topic, or the parse-failure fallback),
\* is_valid_fraud_query is false.
C28_ValidOnlyForFraudRequests ==
  QueryValidated /\ GateShortCircuited => ~is_valid_fraud_query(fraud_type)

\* ---------------------------------------------------------------------------
\* Advisor workflow

\* graph.invoke of the advisor is over: it returned or it raised
AdvisorOver == entry = "advise" /\ pc \in {"advised", "advisor_raised"}

\* the query of the request is accepted by InputValidator
QueryAccepted == InputValidator_validate(QueryChars(user_input)) = "valid"

\* a call to the reasoning service itself failed: the categorization call, or
\* the generation call (which is issued after the enumerations accepted the
\* categories)
AdvisorCallFailed ==
  \/ raised_in = "categorize"
  \/ raised_in = "generate" /\ calls.generate = 1

\* C29: the advisor workflow is total over categorization output: for every
\* input accepted by InputValidator and every response of the reasoning
\* service to the categorization prompt (valid JSON with query_type or topic
\* outside the enumerations, missing keys, or unparseable text), get_advice
\* and get_advice_stream complete with a formatted response, falling back to
\* query type simple and topic general, instead of raising; for every
\* rejected input they complete with query_type invalid, the canned message
\* for the rejection reason, and zero reasoning-service calls.
C29_AdvisorTotal ==
  AdvisorOver =>
    /\ QueryAccepted /\ ~AdvisorCallFailed =>
         /\ pc = "advised"
         /\ advisor_state.query_type \in QueryTypes
         /\ advisor_state.topic \in Topics
         /\ advisor_state.formatted_response # <<>>
    /\ ~QueryAccepted =>
         /\ pc = "advised"
         /\ advisor_state.query_type = "invalid"
         /\ advisor_state.formatted_response =
              <<get_invalid_input_message(InputValidator_validate(QueryChars(user_input)))>>
         /\ calls.categorize = 0 /\ calls.generate = 0

\* ---------------------------------------------------------------------------
\* The order of the checks of InputValidator

\* bound: the length of the queries the checks are compared on
MaxQueryLen == 7

\* a letter, a second letter, a digit, a sign and the space
QueryAlphabet == {"a", "b", "1", "?", " "}

\* every query over the alphabet up to the bound
BoundedQueries == UNION {[1..n -> QueryAlphabet] : n \in 0..MaxQueryLen}

\* the five checks, each on its own
NonSpaceCount(q) == Cardinality({k \in 1..Len(q) : q[k] # " "})

AlphaCount(q) == Cardinality({k \in 1..Len(q) : IsAlpha(q[k])})

DigitCount(q) == Cardinality({k \in 1..Len(q) : IsDigit(q[k])})

TooShort(q) == Len(Strip(q)) < 2

TooLong(q) == Len(q) > 500

Gibberish(q) == NonSpaceCount(q) > 0 /\ 2 * AlphaCount(q) < NonSpaceCount(q)

RepeatedChars(q) ==
  /\ Len(q) > 5
  /\ \E c \in {LowerChar(q[k]) : k \in 1..Len(q)} :
       /\ IsAlpha(c)
       /\ 10 * Cardinality({k \in 1..Len(q) : LowerChar(q[k]) = c}) > 4 * Len(q)

MostlyNumbers(q) == NonSpaceCount(q) > 0 /\ 10 * DigitCount(q) > 7 * NonSpaceCount(q)

\* the first check that matches in the order too_short, too_long, gibberish,
\* repeated_chars, mostly_numbers
FirstMatch(q) ==
  CASE TooShort(q) -> "too_short"
    [] ~TooShort(q) /\ TooLong(q) -> "too_long"
    [] ~TooShort(q) /\ ~TooLong(q) /\ Gibberish(q) -> "gibberish"
    [] ~TooShort(q) /\ ~TooLong(q) /\ ~Gibberish(q) /\ RepeatedChars(q) -> "repeated_chars"
    [] ~TooShort(q) /\ ~TooLong(q) /\ ~Gibberish(q) /\ ~RepeatedChars(q)
         /\ MostlyNumbers(q) -> "mostly_numbers"
    [] OTHER -> "valid"

\* the claim about one query
ChecksInOrder(q) ==
  /\ InputValidator_validate(q) = FirstMatch(q)
  /\ InputValidator_validate(q) # "mostly_numbers"
  /\ MostlyNumbers(q) => Gibberish(q)

====
